---- MODULE Spec2Model ----
(***************************************************************************)
(* A model of the conversational shopping assistant: the ADK agent          *)
(* (adk-agents/concierge_coordinator.py and its no-ML variant), the MCP     *)
(* server (mcp-server/server.py) and the price formatter of the UI          *)
(* (streamlit-ui/app.py).  Text is modelled as TLA+ strings, character by   *)
(* character, so that substring tests, lowercasing, splitting and number    *)
(* formatting are computed the way the Python code computes them.           *)
(***************************************************************************)
EXTENDS Integers, Sequences, FiniteSets, TLC

VARIABLES
    pc,                 \* position of the request being served
    endpoint,           \* the handler serving the request
    gemini_enabled,     \* GeminiClient.enabled
    ml_available,       \* SemanticSearchEngine.model is loaded
    user_message,       \* the chat message of the turn
    extracted,          \* what the extractors find in user_message
    user_id,            \* the user id of the request
    request,            \* the remaining fields of the request body
    available_products, \* the catalog snapshot fetched by the turn
    intent,             \* classify_intent's result in the rule-based flow
    reply,              \* the reply string, result message or error detail
    status,             \* HTTP status of the response, 0 while in progress
    calls,              \* collaborator calls issued so far, in order
    shown,              \* prices composed into the reply: <<units, nanos, text>>
    locals,             \* handler-local values that live across awaits
    match,              \* the call of a fuzzy matcher and what it returned
    extraction,         \* the call of an extractor and what it returned
    cart,               \* the Cart Service's lines of the user: product id -> quantity
    removal,            \* the /remove_item_from_cart request being served
    search              \* the /search_products request being served

vars == <<pc, endpoint, gemini_enabled, ml_available, user_message, extracted, user_id,
          request, available_products, intent, reply, status, calls, shown,
          locals, match, extraction, cart, removal, search>>

-----------------------------------------------------------------------------
(* Strings                                                                  *)

Ch(s, i) == SubSeq(s, i, i)

UpperChars == "ABCDEFGHIJKLMNOPQRSTUVWXYZ"
LowerChars == "abcdefghijklmnopqrstuvwxyz"
DigitChars == "0123456789"

CharSet(s) == {Ch(s, i) : i \in 1..Len(s)}
Uppers == CharSet(UpperChars)
Lowers == CharSet(LowerChars)
Digits == CharSet(DigitChars)
Whitespace == {" ", "\n", "\t"}

IndexIn(c, s) == CHOOSE i \in 1..Len(s) : Ch(s, i) = c

\* str.lower() of one character
LowerCh(c) == IF c \in Uppers THEN Ch(LowerChars, IndexIn(c, UpperChars)) ELSE c

\* str.lower(), one half of the string after the other
RECURSIVE Lower(_)
Lower(s) ==
    IF Len(s) = 0 THEN ""
    ELSE IF Len(s) = 1 THEN LowerCh(s)
    ELSE Lower(SubSeq(s, 1, Len(s) \div 2)) \o Lower(SubSeq(s, Len(s) \div 2 + 1, Len(s)))

\* p in t
Contains(p, t) ==
    \E i \in 1..(Len(t) - Len(p) + 1) : SubSeq(t, i, i + Len(p) - 1) = p

StartsWith(t, p) == Len(p) <= Len(t) /\ SubSeq(t, 1, Len(p)) = p
EndsWith(t, p) == Len(p) <= Len(t) /\ SubSeq(t, Len(t) - Len(p) + 1, Len(t)) = p

RECURSIVE LStrip(_)
LStrip(s) == IF s # "" /\ Ch(s, 1) \in Whitespace THEN LStrip(Tail(s)) ELSE s

RECURSIVE RStrip(_)
RStrip(s) ==
    IF s # "" /\ Ch(s, Len(s)) \in Whitespace THEN RStrip(SubSeq(s, 1, Len(s) - 1)) ELSE s

\* str.strip()
Strip(s) == RStrip(LStrip(s))

\* str.rstrip(c) for a single character c: strips every trailing c
RECURSIVE RStripCh(_, _)
RStripCh(s, c) ==
    IF s # "" /\ Ch(s, Len(s)) = c THEN RStripCh(SubSeq(s, 1, Len(s) - 1), c) ELSE s

\* str.split(): the maximal runs of non-whitespace characters, in order
RECURSIVE SplitFrom(_, _, _)
SplitFrom(s, i, cur) ==
    IF i > Len(s) THEN (IF cur = "" THEN <<>> ELSE <<cur>>)
    ELSE IF Ch(s, i) \in Whitespace
         THEN (IF cur = "" THEN <<>> ELSE <<cur>>) \o SplitFrom(s, i + 1, "")
         ELSE SplitFrom(s, i + 1, cur \o Ch(s, i))

Split(s) == SplitFrom(s, 1, "")

\* sep.join(words)
RECURSIVE Join(_, _)
Join(words, sep) ==
    IF words = <<>> THEN ""
    ELSE IF Len(words) = 1 THEN words[1]
    ELSE words[1] \o sep \o Join(Tail(words), sep)

Range(seq) == {seq[i] : i \in 1..Len(seq)}

\* any(p in t for p in patterns)
AnyIn(patterns, t) == \E i \in 1..Len(patterns) : Contains(patterns[i], t)

\* str(n) for n >= 0
RECURSIVE Str(_)
Str(n) == IF n < 10 THEN Ch(DigitChars, n + 1)
          ELSE Str(n \div 10) \o Ch(DigitChars, (n % 10) + 1)

\* format(n, "02d") for n >= 0: at least two digits, zero padded
Fmt02d(n) == IF n < 10 THEN "0" \o Str(n) ELSE Str(n)

-----------------------------------------------------------------------------
(* Intent classification                                                    *)

\* A variant that tests the intents in the opposite order.
IntentOrderReversed == <<"help", "recommendations", "cart_add", "cart_view", "search">>

IntentOrder == <<"search", "cart_view", "cart_add", "recommendations", "help">>

intent_patterns(i) ==
    CASE i = "search" ->
            <<"find", "search", "look for", "show me", "get me", "i need", "i want",
              "looking for", "searching for", "where can i find", "do you have">>
      [] i = "cart_view" ->
            <<"cart", "basket", "my items", "what do i have", "show cart",
              "view cart", "check cart", "my bag">>
      [] i = "cart_add" ->
            <<"add to cart", "buy", "purchase", "get this", "i'll take",
              "put in cart", "add this", "buy this">>
      [] i = "recommendations" ->
            <<"recommend", "suggest", "what should i buy", "surprise me",
              "what's good", "what's popular", "best sellers", "top rated">>
      [] i = "help" ->
            <<"help", "what can you do", "how does this work", "instructions",
              "commands", "options", "what are my choices">>

\* The keyword loop of classify_intent over order; "none" when no list matches.
RECURSIVE KeywordIntent(_, _, _)
KeywordIntent(text_lower, order, k) ==
    IF k > Len(order) THEN "none"
    ELSE IF AnyIn(intent_patterns(order[k]), text_lower) THEN order[k]
    ELSE KeywordIntent(text_lower, order, k + 1)

-----------------------------------------------------------------------------
(* Regular-expression character classes and word boundaries                 *)

\* \w
IsWord(c) == c \in Uppers \/ c \in Lowers \/ c \in Digits \/ c = "_"

\* [A-Z0-9_-] under re.IGNORECASE
IsIdChar(c) == IsWord(c) \/ c = "-"

IsDigit(c) == c \in Digits

WordAt(s, i) == i >= 1 /\ i <= Len(s) /\ IsWord(Ch(s, i))

\* \b between the characters i-1 and i of s (i in 1..Len(s)+1)
Boundary(s, i) == WordAt(s, i - 1) # WordAt(s, i)

\* t occurs in s at position i
At(s, i, t) == i >= 1 /\ i + Len(t) - 1 <= Len(s) /\ SubSeq(s, i, i + Len(t) - 1) = t

\* the first position >= i of s that is not whitespace (\s* consumed greedily)
RECURSIVE SkipWs(_, _)
SkipWs(s, i) == IF i <= Len(s) /\ Ch(s, i) \in Whitespace THEN SkipWs(s, i + 1) ELSE i

\* the length of the run of characters satisfying IsIdChar that starts at i
RECURSIVE IdRun(_, _)
IdRun(s, i) == IF i <= Len(s) /\ IsIdChar(Ch(s, i)) THEN 1 + IdRun(s, i + 1) ELSE 0

RECURSIVE DigitRun(_, _)
DigitRun(s, i) == IF i <= Len(s) /\ IsDigit(Ch(s, i)) THEN 1 + DigitRun(s, i + 1) ELSE 0

Min(a, b) == IF a < b THEN a ELSE b
Max(a, b) == IF a > b THEN a ELSE b

\* int(s) for a string of digits
RECURSIVE ToInt(_)
ToInt(s) == IF s = "" THEN 0
            ELSE 10 * ToInt(SubSeq(s, 1, Len(s) - 1)) + (IndexIn(Ch(s, Len(s)), DigitChars) - 1)

\* The least element of a non-empty set of positions
Least(S) == CHOOSE i \in S : \A j \in S : i <= j

NoMatch == "<none>"

-----------------------------------------------------------------------------
(* Parameter extractors                                                     *)

MinIdLen == 8
MaxIdLen == 15

\* r'(?:id|product)\s*:?\s*([A-Z0-9_-]{8,15})': where the group starts when the
\* label matches at i (0 when the pattern does not match at i)
LabelledIdStart(m, i) ==
    LET after(lab) ==
            LET a == SkipWs(m, i + Len(lab))
                b == IF At(m, a, ":") THEN a + 1 ELSE a
                c == SkipWs(m, b)
            IN IF At(Lower(m), i, lab) /\ IdRun(m, c) >= MinIdLen THEN c ELSE 0
    IN IF after("id") # 0 THEN after("id") ELSE after("product")

\* re.search of the first pattern: the captured group or NoMatch
SearchLabelledId(m) ==
    LET hits == {i \in 1..Len(m) : LabelledIdStart(m, i) # 0}
    IN IF hits = {} THEN NoMatch
       ELSE LET c == LabelledIdStart(m, Least(hits))
            IN SubSeq(m, c, c + Min(IdRun(m, c), MaxIdLen) - 1)

\* The backquote cannot be written in a TLA+ string: "^", which occurs in no
\* pattern or template of the program, stands for it in messages and replies.
Backtick == "^"

\* r'<backquote>([A-Z0-9_-]{8,15})<backquote>'
SearchBacktickId(m) ==
    LET ok(i) == /\ At(m, i, Backtick)
                 /\ IdRun(m, i + 1) \in MinIdLen..MaxIdLen
                 /\ At(m, i + 1 + IdRun(m, i + 1), Backtick)
        hits == {i \in 1..Len(m) : ok(i)}
    IN IF hits = {} THEN NoMatch
       ELSE SubSeq(m, Least(hits) + 1, Least(hits) + IdRun(m, Least(hits) + 1))

\* r'\b([A-Z0-9_-]{8,15})\b': the lengths the group can take at i, the greatest
\* (greedy) first
BareIdLens(m, i) ==
    {n \in MinIdLen..MaxIdLen : n <= IdRun(m, i) /\ Boundary(m, i + n)}

SearchBareId(m) ==
    LET hits == {i \in 1..Len(m) : Boundary(m, i) /\ BareIdLens(m, i) # {}}
    IN IF hits = {} THEN NoMatch
       ELSE LET i == Least(hits)
                n == CHOOSE k \in BareIdLens(m, i) : \A j \in BareIdLens(m, i) : j <= k
            IN SubSeq(m, i, i + n - 1)

IdDenylist == {"mug", "shirt", "shoes", "watch", "bag", "pants", "dress", "tank", "tops"}

\* the validation of a candidate in _extract_product_id
LooksLikeProductId(candidate_id) ==
    /\ Len(candidate_id) >= MinIdLen
    /\ Lower(candidate_id) \notin IdDenylist
    /\ \E k \in 1..Len(candidate_id) :
          Ch(candidate_id, k) \in Uppers \/ Ch(candidate_id, k) \in Digits

\* _extract_product_id: the first pattern, in order, whose first match validates
_extract_product_id(m) ==
    LET c1 == SearchLabelledId(m)
        c2 == SearchBacktickId(m)
        c3 == SearchBareId(m)
    IN IF c1 # NoMatch /\ LooksLikeProductId(c1) THEN c1
       ELSE IF c2 # NoMatch /\ LooksLikeProductId(c2) THEN c2
       ELSE IF c3 # NoMatch /\ LooksLikeProductId(c3) THEN c3
       ELSE NoMatch

NoMLVerbs == <<"add", "buy", "purchase">>

\* r'(?:add|buy|purchase)\s+([A-Za-z0-9_-]+)': start of the group when a verb
\* matches at i
VerbIdStart(m, i) ==
    LET after(v) == SkipWs(m, i + Len(v))
        hit(v) == /\ At(Lower(m), i, v)
                  /\ after(v) > i + Len(v)
                  /\ IdRun(m, after(v)) > 0
        vs == {k \in 1..Len(NoMLVerbs) : hit(NoMLVerbs[k])}
    IN IF vs = {} THEN 0 ELSE after(NoMLVerbs[Least(vs)])

\* r'(?:id|product)\s*:?\s*([A-Za-z0-9_-]+)': start of the group when the label
\* matches at i
LabelIdStart(m, i) ==
    LET after(lab) ==
            LET a == SkipWs(m, i + Len(lab))
                b == IF At(m, a, ":") THEN a + 1 ELSE a
                c == SkipWs(m, b)
            IN IF At(Lower(m), i, lab) /\ IdRun(m, c) > 0 THEN c ELSE 0
    IN IF after("id") # 0 THEN after("id") ELSE after("product")

\* r'<backquote>([A-Za-z0-9_-]+)<backquote>' matches at i
BacktickIdAt(m, i) ==
    /\ At(m, i, Backtick)
    /\ IdRun(m, i + 1) > 0
    /\ At(m, i + 1 + IdRun(m, i + 1), Backtick)

\* _extract_product_id of the no-ML agent: the group of the first pattern, in
\* order, that matches; no validation
_extract_product_id_no_ML(m) ==
    LET h1 == {i \in 1..Len(m) : VerbIdStart(m, i) # 0}
        h2 == {i \in 1..Len(m) : LabelIdStart(m, i) # 0}
        h3 == {i \in 1..Len(m) : BacktickIdAt(m, i)}
        Group(c) == SubSeq(m, c, c + IdRun(m, c) - 1)
    IN IF h1 # {} THEN Group(VerbIdStart(m, Least(h1)))
       ELSE IF h2 # {} THEN Group(LabelIdStart(m, Least(h2)))
       ELSE IF h3 # {} THEN Group(Least(h3) + 1)
       ELSE NoMatch

QuantityVerbs == <<"buy", "add", "get", "purchase">>
QuantityUnits == <<"of", "item", "piece">>

\* r'(?:buy|add|get|purchase)\s+(\d+)': start of the digits when a verb matches at i
VerbQtyStart(m, i) ==
    LET hit(v) == /\ At(Lower(m), i, v)
                  /\ SkipWs(m, i + Len(v)) > i + Len(v)
                  /\ DigitRun(m, SkipWs(m, i + Len(v))) > 0
        vs == {k \in 1..Len(QuantityVerbs) : hit(QuantityVerbs[k])}
    IN IF vs = {} THEN 0 ELSE SkipWs(m, i + Len(QuantityVerbs[Least(vs)]))

\* r'(\d+)\s+(?:of|items?|pieces?)' matches with its group starting at i
UnitQtyAt(m, i) ==
    LET e == i + DigitRun(m, i)
        w == SkipWs(m, e)
    IN /\ DigitRun(m, i) > 0
       /\ w > e
       /\ \E k \in 1..Len(QuantityUnits) : At(Lower(m), w, QuantityUnits[k])

\* r'quantity\s*:?\s*(\d+)': start of the digits when the label matches at i
LabelQtyStart(m, i) ==
    LET a == SkipWs(m, i + Len("quantity"))
        b == IF At(m, a, ":") THEN a + 1 ELSE a
        c == SkipWs(m, b)
    IN IF At(Lower(m), i, "quantity") /\ DigitRun(m, c) > 0 THEN c ELSE 0

DigitsFrom(m, c) == SubSeq(m, c, c + DigitRun(m, c) - 1)

\* A variant that tries the second pattern ahead of the first.
_extract_quantity_units_first(m) ==
    LET h1 == {i \in 1..Len(m) : VerbQtyStart(m, i) # 0}
        h2 == {i \in 1..Len(m) : UnitQtyAt(m, i)}
        h3 == {i \in 1..Len(m) : LabelQtyStart(m, i) # 0}
    IN IF h2 # {} THEN Max(1, ToInt(DigitsFrom(m, Least(h2))))
       ELSE IF h1 # {} THEN Max(1, ToInt(DigitsFrom(m, VerbQtyStart(m, Least(h1)))))
       ELSE IF h3 # {} THEN Max(1, ToInt(DigitsFrom(m, LabelQtyStart(m, Least(h3)))))
       ELSE 1

\* _extract_quantity
_extract_quantity(m) ==
    LET h1 == {i \in 1..Len(m) : VerbQtyStart(m, i) # 0}
        h2 == {i \in 1..Len(m) : UnitQtyAt(m, i)}
        h3 == {i \in 1..Len(m) : LabelQtyStart(m, i) # 0}
    IN IF h1 # {} THEN Max(1, ToInt(DigitsFrom(m, VerbQtyStart(m, Least(h1)))))
       ELSE IF h2 # {} THEN Max(1, ToInt(DigitsFrom(m, Least(h2))))
       ELSE IF h3 # {} THEN Max(1, ToInt(DigitsFrom(m, LabelQtyStart(m, Least(h3)))))
       ELSE 1

\* re.sub(r'\b' + re.escape(term) + r'\b', ' ', s), scanning from position i
RECURSIVE SubWord(_, _, _)
SubWord(s, i, term) ==
    IF i > Len(s) THEN ""
    ELSE IF At(s, i, term) /\ Boundary(s, i) /\ Boundary(s, i + Len(term))
         THEN " " \o SubWord(s, i + Len(term), term)
         ELSE Ch(s, i) \o SubWord(s, i + 1, term)

SearchLeadIns ==
    <<"search for", "find", "look for", "show me", "get me",
      "i need", "i want", "looking for", "searching for",
      "where can i find", "do you have", "can you find">>

CartAddLeadIns ==
    <<"add to cart", "add to my cart", "add this to cart", "add that to cart",
      "buy this", "buy that", "purchase this", "purchase that",
      "put in cart", "add", "to cart", "to my cart", "buy", "purchase",
      "i'll take", "get this", "get that">>

RECURSIVE RemoveTerms(_, _, _)
RemoveTerms(msg, terms, k) ==
    IF k > Len(terms) THEN msg
    ELSE CHOOSE removed \in
             { RemoveTerms(substituted, terms, k + 1) :
                   substituted \in {SubWord(msg, 1, terms[k])} } : TRUE

\* _extract_search_terms
_extract_search_terms(message, for_intent) ==
    LET terms_to_remove ==
            IF for_intent = "cart_add" THEN SearchLeadIns \o CartAddLeadIns ELSE SearchLeadIns
        removed == RemoveTerms(Strip(Lower(message)), terms_to_remove, 1)
        words == Split(removed)
        Long(w) == Len(w) > 2
    IN IF Len(words) > 2 THEN Join(SelectSeq(words, Long), " ") ELSE Join(words, " ")

CartAddPhrases ==
    <<"add to cart", "add this to cart", "add it to cart", "add that to cart",
      "buy this", "buy that", "buy it", "purchase this", "purchase that",
      "get this", "get that", "i want this", "i want that", "i'll take it",
      "i'll take this", "i'll take that", "put in cart", "add to my cart",
      "i need", "i want", "looking for", "need some", "want some",
      "find me", "get me", "i'd like", "i require", "shopping for",
      "for work", "for meeting", "for office", "for business", "for running",
      "for gym", "for exercise", "for jogging", "for walking", "for casual",
      "for weekend", "for formal", "for interview", "for presentation">>

CartProductTypes ==
    <<"shoes", "shirt", "pants", "dress", "jacket", "watch", "bag", "headphones">>

\* s[a..b-1] holds no line break ('.' does not match one)
NoNewline(s, a, b) == \A k \in a..(b - 1) : Ch(s, k) # "\n"

\* t, then \s+, then u, then \b, starting at j
TwoWordsAt(s, j, t, u) ==
    LET w == SkipWs(s, j + Len(t))
    IN At(s, j, t) /\ w > j + Len(t) /\ At(s, w, u) /\ Boundary(s, w + Len(u))

\* re.search(r'\badd\s+\w+.*?to\s+cart\b', s)
AddWordToCart(s) ==
    \E i \in 1..Len(s) :
        LET a == SkipWs(s, i + 3)
        IN /\ Boundary(s, i) /\ At(s, i, "add") /\ a > i + 3 /\ WordAt(s, a)
           /\ \E j \in (a + 1)..Len(s) :
                 /\ \E b \in (a + 1)..j : (\A k \in a..(b - 1) : WordAt(s, k)) /\ NoNewline(s, b, j)
                 /\ TwoWordsAt(s, j, "to", "cart")

\* re.search(r'\badd\s+.*?to\s+my\s+cart\b', s)
AddToMyCart(s) ==
    \E i \in 1..Len(s) :
        /\ Boundary(s, i) /\ At(s, i, "add") /\ SkipWs(s, i + 3) > i + 3
        /\ \E a \in (i + 4)..SkipWs(s, i + 3) : \E j \in a..Len(s) :
              /\ NoNewline(s, a, j)
              /\ At(s, j, "to")
              /\ SkipWs(s, j + 2) > j + 2
              /\ TwoWordsAt(s, SkipWs(s, j + 2), "my", "cart")

\* _detect_cart_add_intent
_detect_cart_add_intent(message) ==
    LET message_lower == Lower(message)
    IN \/ AnyIn(CartAddPhrases, message_lower)
       \/ AddWordToCart(message_lower)
       \/ AddToMyCart(message_lower)
       \/ AnyIn(CartProductTypes, message_lower) /\ Len(Split(message)) <= 8

AddAllPhrases ==
    <<"add all", "add all products", "add all items", "add everything",
      "add all to cart", "add all products to cart", "add all items to cart",
      "buy all", "purchase all", "get all", "take all">>

\* _is_add_all_command
_is_add_all_command(message) == AnyIn(AddAllPhrases, Lower(message))

NameCartWords == {"add", "to", "cart", "buy", "purchase", "get", "take"}

\* The score of one product in _extract_product_by_name, as <<numerator, denominator>>
NameScore(words, product) ==
    LET search_text == Join(words, " ")
        product_name == Lower(product.name)
        product_words == Split(product_name)
        common_words == Range(words) \cap Range(product_words)
    IN IF Contains(search_text, product_name) \/ Contains(product_name, search_text)
       THEN <<9, 10>>
       ELSE IF common_words # {}
            THEN <<Cardinality(common_words), Max(Len(words), Len(product_words))>>
            ELSE <<0, 1>>

\* a > b for scores <<n, d>>
ScoreGt(a, b) == a[1] * b[2] > b[1] * a[2]
ScoreGe(a, b) == a[1] * b[2] >= b[1] * a[2]

\* The loop of _extract_product_by_name: the index of best_match after the
\* products k.. have been seen (0: None)
RECURSIVE BestByName(_, _, _, _, _)
BestByName(words, products, k, best_match, best_score) ==
    IF k > Len(products) THEN best_match
    ELSE LET score == NameScore(words, products[k])
         IN IF ScoreGt(score, best_score) /\ ScoreGt(score, <<3, 10>>)
            THEN BestByName(words, products, k + 1, k, score)
            ELSE BestByName(words, products, k + 1, best_match, best_score)

\* _extract_product_by_name: the index in available_products of the match, 0 for None
_extract_product_by_name(message, products) ==
    LET Kept(w) == w \notin NameCartWords /\ Len(w) > 2
        words == SelectSeq(Split(Lower(message)), Kept)
    IN IF words = <<>> THEN 0 ELSE BestByName(words, products, 1, 0, <<0, 1>>)

\* Whether _find_best_product_match returns this product from inside its loop
NameMentioned(message_lower, product) ==
    LET product_name == Lower(product.name)
        Long(w) == Len(w) > 2
        name_words == SelectSeq(Split(product_name), Long)
        matches == Cardinality({k \in 1..Len(name_words) : Contains(name_words[k], message_lower)})
    IN /\ Len(product_name) > 3
       /\ \/ Contains(product_name, message_lower)
          \/ name_words # <<>> /\ matches * 10 >= Len(name_words) * 7

\* _find_best_product_match: the index in products of the match, 0 for None
_find_best_product_match(message, products) ==
    LET hits == {k \in 1..Len(products) : NameMentioned(Lower(message), products[k])}
    IN IF hits # {} THEN Least(hits)
       ELSE IF products # <<>> THEN 1 ELSE 0

BudgetLabels == <<"under", "below", "less than", "budget">>

\* One budget pattern at position i: where the number starts, 0 when it does not match
BudgetStart(m, i, lab) ==
    LET a == SkipWs(m, i + Len(lab))
        b == IF lab = "budget" /\ At(m, a, ":") THEN SkipWs(m, a + 1) ELSE a
        c == IF At(m, b, "$") THEN b + 1 ELSE b
    IN IF At(Lower(m), i, lab) /\ DigitRun(m, c) > 0 THEN c ELSE 0

\* float(match.group(1)) for r'(\d+(?:\.\d{2})?)' at c, as <<whole, hundredths>>
BudgetValue(m, c) ==
    LET e == c + DigitRun(m, c)
    IN IF At(m, e, ".") /\ DigitRun(m, e + 1) >= 2
       THEN <<ToInt(SubSeq(m, c, e - 1)), ToInt(SubSeq(m, e + 1, e + 2))>>
       ELSE <<ToInt(SubSeq(m, c, e - 1)), 0>>

RECURSIVE BudgetFrom(_, _)
BudgetFrom(m, k) ==
    IF k > Len(BudgetLabels) THEN <<>>
    ELSE LET hits == {i \in 1..Len(m) : BudgetStart(m, i, BudgetLabels[k]) # 0}
         IN IF hits # {} THEN BudgetValue(m, BudgetStart(m, Least(hits), BudgetLabels[k]))
            ELSE BudgetFrom(m, k + 1)

\* _extract_budget: <<whole, hundredths>>, or <<>> for None
_extract_budget(m) == BudgetFrom(m, 1)

\* str(float) of a budget: 45.5, 60.0, 45.05
FloatStr(b) ==
    Str(b[1]) \o "." \o (IF b[2] % 10 = 0 THEN Str(b[2] \div 10) ELSE Fmt02d(b[2]))

StopWords ==
    {"the", "a", "an", "and", "or", "but", "in", "on", "at", "to", "for", "of", "with", "by"}

\* A variant that drops only the first stop-word of a text of more than three
\* words.
preprocess_text_first(text) ==
    LET words == Split(Strip(Lower(text)))
        stops == {k \in 1..Len(words) : words[k] \in StopWords}
        kept == IF stops = {} \/ Len(words) <= 3 THEN words
                ELSE SubSeq(words, 1, Least(stops) - 1)
                     \o SubSeq(words, Least(stops) + 1, Len(words))
    IN IF text = "" THEN "" ELSE Join(kept, " ")

\* SemanticSearchEngine.preprocess_text
preprocess_text(text) ==
    LET words == Split(Strip(Lower(text)))
        Kept(w) == w \notin StopWords \/ Len(words) <= 3
    IN IF text = "" THEN "" ELSE Join(SelectSeq(words, Kept), " ")

-----------------------------------------------------------------------------
(* Error mapping and price formatting                                       *)

\* ShoppingAgent._get_user_friendly_error
_get_user_friendly_error(error_message, operation) ==
    LET error_lower == Lower(error_message)
        has(t) == Contains(t, error_lower)
    IN IF has("no product with id") \/ has("not found")
       THEN "Sorry, that product couldn't be found. Please try searching for products first to get valid product IDs."
       ELSE IF operation = "cart_add"
       THEN (IF has("timeout") \/ has("connection")
             THEN "I'm having trouble connecting to the shopping cart right now. Please try again in a moment."
             ELSE IF has("invalid")
             THEN "There was an issue with the product information. Please try searching for the product again."
             ELSE "I couldn't add that item to your cart right now. Please try again or search for the product first.")
       ELSE IF operation = "search"
       THEN (IF has("timeout")
             THEN "The product search is taking too long. Please try again with different keywords."
             ELSE IF has("connection")
             THEN "I'm having trouble accessing the product catalog. Please try again in a moment."
             ELSE "I couldn't search for products right now. Please try again with different keywords.")
       ELSE IF operation = "cart_view"
       THEN (IF has("timeout") \/ has("connection")
             THEN "I can't access your cart right now. Please try again in a moment."
             ELSE "There was a problem loading your cart. Please try refreshing.")
       ELSE IF operation = "product_details"
       THEN (IF has("no product with id")
             THEN "I couldn't find details for that product. It may no longer be available."
             ELSE IF has("timeout") \/ has("connection")
             THEN "I'm having trouble loading product details right now. Please try again."
             ELSE "I couldn't get the details for that product. Please try again.")
       ELSE IF has("timeout")
       THEN "The request took too long. Please try again."
       ELSE IF has("connection") \/ has("service")
       THEN "I'm having trouble connecting to our systems. Please try again in a moment."
       ELSE "Something went wrong. Please try again or rephrase your request."

\* get_user_friendly_error_message of the MCP server
get_user_friendly_error_message(error_message, operation) ==
    LET error_lower == Lower(error_message)
        has(t) == Contains(t, error_lower)
    IN IF has("no product with id") \/ has("not found")
       THEN "The requested product is not available or may have been discontinued."
       ELSE IF has("timeout") \/ has("deadline")
       THEN "The request is taking too long. Please try again."
       ELSE IF has("connection") \/ has("unavailable")
       THEN "Our services are temporarily unavailable. Please try again in a moment."
       ELSE IF has("invalid") \/ has("bad request")
       THEN "There was an issue with the request. Please check your input and try again."
       ELSE IF has("permission") \/ has("denied")
       THEN "Access denied. Please check your permissions."
       ELSE IF operation = "search"
       THEN "Unable to search for products right now. Please try again."
       ELSE IF operation = "cart"
       THEN "Unable to update your cart right now. Please try again."
       ELSE IF operation = "product"
       THEN "Unable to load product information right now. Please try again."
       ELSE "Something went wrong. Please try again."

\* The agent's price_str: f"${units}.{nanos:02d}"
price_str(units, nanos) == "$" \o Str(units) \o "." \o Fmt02d(nanos)

NanosPerCent == 10000000

\* format_price of the UI: f"${units}.{nanos//10000000:02d}"
format_price(units, nanos) == "$" \o Str(units) \o "." \o Fmt02d(nanos \div NanosPerCent)

-----------------------------------------------------------------------------
(* The catalog, and what the collaborators can answer                       *)

Product(id, name, description, units, nanos, categories) ==
    [id |-> id, name |-> name, description |-> description, priced |-> TRUE,
     units |-> units, nanos |-> nanos, categories |-> categories]

NoProduct == [id |-> "", name |-> "", description |-> "", priced |-> FALSE,
              units |-> 0, nanos |-> 0, categories |-> <<>>]

\* The products of the Product Catalog Service, in ListProducts order.
FullCatalog ==
    << Product("OLJCESPC7Z", "Sunglasses",
               "Add a modern touch to your outfits with these sleek aviator sunglasses.",
               19, 990000000, <<"accessories">>),
       Product("6E92ZMYYFZ", "Mug", "A simple mug with a mustard interior.",
               8, 990000000, <<"kitchen">>),
       Product("1YMWWN1N4O", "Watch",
               "This gold-tone stainless steel watch will work with most of your outfits.",
               109, 990000000, <<"accessories">>),
       Product("9SIQT8TOJO", "Bamboo Glass Jar",
               "This bamboo glass jar can hold 57 oz (1.7 l) and is perfect for any kitchen.",
               5, 490000000, <<"kitchen">>) >>

CatalogSize == 3

Catalog == SubSeq(FullCatalog, 1, Min(CatalogSize, Len(FullCatalog)))

CatalogIds == {Catalog[i].id : i \in 1..Len(Catalog)}

ProductById(id) == Catalog[CHOOSE i \in 1..Len(Catalog) : Catalog[i].id = id]

\* str(e) of the exceptions httpx raises in the agent
HttpErrors ==
    { "All connection attempts failed",
      "Server error '500 Internal Server Error' for url 'http://mcp-server:8080'" }

\* str(e) of the gRPC errors raised in the MCP server
GrpcErrors ==
    { "StatusCode.UNAVAILABLE failed to connect to all addresses; last error: ipv4:10.8.2.17:7070: Connection refused",
      "StatusCode.INTERNAL redis write failed" }

RawErrors == HttpErrors \cup GrpcErrors

\* The operation names the error mappings are called with
Operations == {"search", "cart_add", "cart_view", "product_details", "cart"}

\* What the two error mappings make of each raw error, tabulated once and
\* looked up where the client wrappers call them.
FriendlyErrors ==
    { [raw |-> r, operation |-> op,
       agent |-> _get_user_friendly_error(r, op),
       server |-> get_user_friendly_error_message(r, op)] :
      r \in RawErrors, op \in Operations }

FriendlyError(raw, operation) ==
    CHOOSE row \in FriendlyErrors : row.raw = raw /\ row.operation = operation

\* How a call to a collaborator ends: it answers, or it raises str(e) = raw
\* in the HTTP client of the agent ("http") or in the gRPC stub of the MCP
\* server ("grpc").
Ok == [kind |-> "ok", raw |-> ""]
HttpFail(raw) == [kind |-> "http", raw |-> raw]
GrpcFail(raw) == [kind |-> "grpc", raw |-> raw]

HttpOutcomes == {Ok} \cup {HttpFail(r) : r \in HttpErrors}
CartOutcomes == {Ok} \cup {GrpcFail(r) : r \in GrpcErrors}
AddOutcomes == HttpOutcomes \cup CartOutcomes

\* GetProduct knows the catalog's ids only; for any other id the MCP server
\* answers 500 and the HTTP client raises.
ProductOutcomes(product_id) ==
    IF product_id \in CatalogIds THEN HttpOutcomes
    ELSE {HttpFail(r) : r \in HttpErrors}

\* What /search_products can answer: a list of catalog products.
SearchResults == { <<>>, <<Catalog[1]>>, <<Catalog[2], Catalog[1]>> }

\* What GetCart can answer.
CartContents ==
    { <<>>,
      << [product_id |-> "OLJCESPC7Z", quantity |-> 2],
         [product_id |-> "6E92ZMYYFZ", quantity |-> 1] >> }

\* One record per collaborator call, in the order the calls were issued; ok
\* tells whether the call succeeded.
Call(op, user, product_id, quantity, ok) ==
    [op |-> op, user_id |-> user, product_id |-> product_id, quantity |-> quantity,
     ok |-> ok]

-----------------------------------------------------------------------------
(* The clients of the agent and the handlers of the MCP server they call    *)

\* not s or not s.strip()
Blank(s) == Strip(s) = ""

\* /add_item_to_cart of the MCP server; issued tells whether AddItem was sent
\* (posted: whether the agent made the POST that led here, set by the agent)
add_item_to_cart(user, product_id, quantity, o) ==
    IF Blank(user)
    THEN [status |-> "error", message |-> "User ID is required", posted |-> FALSE, issued |-> FALSE]
    ELSE IF Blank(product_id)
    THEN [status |-> "error", message |-> "Product ID is required", posted |-> FALSE, issued |-> FALSE]
    ELSE IF quantity <= 0
    THEN [status |-> "error", message |-> "Quantity must be greater than 0", posted |-> FALSE, issued |-> FALSE]
    ELSE IF o.kind = "ok"
    THEN [status |-> "success",
          message |-> "Added " \o Str(quantity) \o " unit(s) of " \o product_id \o " to cart",
          posted |-> FALSE, issued |-> TRUE]
    ELSE [status |-> "error",
          message |-> FriendlyError(o.raw, "cart").server,
          posted |-> FALSE, issued |-> TRUE]

\* ShoppingAgent.add_to_cart
add_to_cart(user, product_id, quantity, o) ==
    IF Blank(user)
    THEN [status |-> "error", message |-> "User ID is required", posted |-> FALSE, issued |-> FALSE]
    ELSE IF Blank(product_id)
    THEN [status |-> "error", message |-> "Product ID is required", posted |-> FALSE, issued |-> FALSE]
    ELSE IF quantity <= 0
    THEN [status |-> "error", message |-> "Quantity must be greater than 0", posted |-> FALSE, issued |-> FALSE]
    ELSE IF o.kind = "http"
    THEN [status |-> "error",
          message |-> FriendlyError(o.raw, "cart_add").agent,
          posted |-> TRUE, issued |-> FALSE]
    ELSE [add_item_to_cart(user, product_id, quantity, o) EXCEPT !.posted = TRUE]

\* ShoppingAgent.add_to_cart of the no-ML agent: no validation, str(e) as message
add_to_cart_no_ML(user, product_id, quantity, o) ==
    IF o.kind = "http"
    THEN [status |-> "error", message |-> o.raw, posted |-> TRUE, issued |-> FALSE]
    ELSE [add_item_to_cart(user, product_id, quantity, o) EXCEPT !.posted = TRUE]

\* A variant of list_all_products without its try/except: a failed request
\* raises into the caller.
list_all_products_raising(o) ==
    IF o.kind = "ok"
    THEN [status |-> "success", message |-> "", products |-> Catalog]
    ELSE [status |-> "raise", message |-> o.raw, products |-> <<>>]

\* ShoppingAgent.list_all_products over GET /list_products
list_all_products(o) ==
    IF o.kind = "ok"
    THEN [status |-> "success", message |-> "", products |-> Catalog]
    ELSE [status |-> "error", message |-> FriendlyError(o.raw, "search").agent,
          products |-> <<>>]

\* ShoppingAgent.get_cart over /get_cart_contents
get_cart(o, items) ==
    IF o.kind = "ok"
    THEN [status |-> "success", message |-> "", items |-> items]
    ELSE IF o.kind = "grpc"
    THEN [status |-> "error", message |-> FriendlyError(o.raw, "cart").server,
          items |-> <<>>]
    ELSE [status |-> "error", message |-> FriendlyError(o.raw, "cart_view").agent,
          items |-> <<>>]

\* ShoppingAgent.empty_cart over /empty_cart
empty_cart(user, o) ==
    IF o.kind = "ok"
    THEN [status |-> "success", message |-> "Cart emptied for " \o user]
    ELSE IF o.kind = "grpc"
    THEN [status |-> "error", message |-> FriendlyError(o.raw, "cart").server]
    ELSE [status |-> "error", message |-> FriendlyError(o.raw, "cart_view").agent]

\* A variant that takes every answer of /get_product_details for a success.
get_product_details_trusting(product_id, o) ==
    [status |-> "success", message |-> "",
     product |-> IF o.kind = "ok" THEN ProductById(product_id) ELSE NoProduct]

\* ShoppingAgent.get_product_details over /get_product_details
get_product_details(product_id, o) ==
    IF o.kind = "ok"
    THEN [status |-> "success", message |-> "", product |-> ProductById(product_id)]
    ELSE [status |-> "error",
          message |-> FriendlyError(o.raw, "product_details").agent,
          product |-> NoProduct]

\* ShoppingAgent.search_products over /search_products
search_products(o, results) ==
    IF o.kind = "ok"
    THEN [status |-> "success", message |-> "", results |-> results]
    ELSE [status |-> "error", message |-> FriendlyError(o.raw, "search").agent,
          results |-> <<>>]

\* ShoppingAgent.search_products of the no-ML agent: str(e) as message
search_products_no_ML(o, results) ==
    IF o.kind = "ok"
    THEN [status |-> "success", message |-> "", results |-> results]
    ELSE [status |-> "error", message |-> o.raw, results |-> <<>>]

\* The calls search_products issues: the catalog is listed first when the
\* query is to be enhanced and the model is loaded (a listing that fails
\* leaves the query as it is).
SearchCalls(enhanced, o) ==
    (IF enhanced /\ ml_available THEN <<Call("ListProducts", "", "", 0, TRUE)>> ELSE <<>>)
    \o <<Call("SearchProducts", "", "", 0, o.kind = "ok")>>

\* The failure strings of GeminiClient.generate_response
GeminiHttpError == "Sorry, having trouble with AI processing right now."
GeminiNoCandidates == "Couldn't generate response. Please try again."
GeminiException == "AI processing unavailable. Please try again."
GeminiDisabled == "Gemini AI not available. Using fallback processing."

\* Texts the generative model can produce
GeminiTexts ==
    { "",
      "Try our **Mug** (ID: 6E92ZMYYFZ) - $8.99",
      "We have **Sunglasses** (ID: OLJCESPC7Z) - $19.99, sleek and modern!",
      "I had some trouble finding shoes, but the Loafers are a lovely choice.",
      "   Our Watch (ID: 1YMWWN1N4O) goes with anything!   \n\n\n",
      "Our Mug (ID: 6E92ZMYYFZ) is perfect for coffee!!!!",
      "Our Mug (ID: 6E92ZMYYFZ) is perfect for coffee!!!" }

\* How the generateContent request can end
GeminiOutcomes ==
    { [kind |-> "status", text |-> ""], [kind |-> "empty", text |-> ""],
      [kind |-> "raise", text |-> ""] }
    \cup { [kind |-> "text", text |-> t] : t \in GeminiTexts }

\* GeminiClient.generate_response
generate_response(enabled, o) ==
    IF ~enabled THEN GeminiDisabled
    ELSE IF o.kind = "status" THEN GeminiHttpError
    ELSE IF o.kind = "text" THEN o.text
    ELSE IF o.kind = "empty" THEN GeminiNoCandidates
    ELSE GeminiException

MinGeminiLen == 50

\* A variant of the test that measures the answer without stripping it.
GeminiRejectedUnstripped(gemini_response) ==
    \/ gemini_response = ""
    \/ Len(gemini_response) < MinGeminiLen
    \/ Contains("trouble", gemini_response)

\* The test of _process_with_gemini that rejects the generative answer
GeminiRejected(gemini_response) ==
    \/ gemini_response = ""
    \/ Len(Strip(gemini_response)) < MinGeminiLen
    \/ Contains("trouble", gemini_response)

-----------------------------------------------------------------------------
(* Composing replies                                                        *)

\* Stands for the bullet character of the reply templates.
Bullet == "*"

Take(seq, n) == SubSeq(seq, 1, Min(n, Len(seq)))

Price(p) == price_str(p.units, p.nanos)

\* The prices a reply that lists products shows
ShownOf(products) ==
    [i \in 1..Len(products) |-> <<products[i].units, products[i].nanos, Price(products[i])>>]

Names(products) == [i \in 1..Len(products) |-> products[i].name]

\* desc[:80] followed by '...' when desc is longer
Desc80(desc) == Take(desc, 80) \o (IF Len(desc) > 80 THEN "..." ELSE "")

AddedReply(quantity, product) ==
    "Added " \o Str(quantity) \o "x **" \o product.name \o "** (" \o Price(product)
    \o " each) to your cart!"

\* The listing of _process_with_gemini's search fallback
RECURSIVE GeminiSearchLines(_, _)
GeminiSearchLines(products, i) ==
    IF i > Len(products) THEN ""
    ELSE LET product == products[i]
         IN Bullet \o " **" \o product.name \o "** - " \o Price(product) \o "\n"
            \o "  ID: " \o product.id \o " | " \o Take(product.description, 80) \o "...\n\n"
            \o GeminiSearchLines(products, i + 1)

\* The listing of _handle_cart_addition's options
RECURSIVE OptionLines(_, _)
OptionLines(products, i) ==
    IF i > Len(products) THEN ""
    ELSE LET product == products[i]
         IN Str(i) \o ". **" \o product.name \o "** - " \o Price(product) \o "\n"
            \o "   ID: " \o Backtick \o product.id \o Backtick \o "\n\n"
            \o OptionLines(products, i + 1)

\* The listing of the rule-based search branch
RECURSIVE SearchLines(_, _)
SearchLines(products, i) ==
    IF i > Len(products) THEN ""
    ELSE LET p == products[i]
         IN Str(i) \o ". **" \o p.name \o "** - "
            \o (IF p.priced THEN Price(p) ELSE "Price not available") \o "\n"
            \o "   ID: " \o Backtick \o p.id \o Backtick \o " | Categories: "
            \o Join(p.categories, ", ") \o "\n"
            \o (IF p.description # "" THEN "   " \o Desc80(p.description) \o "\n" ELSE "")
            \o "   Say 'add " \o p.id \o " to cart' to purchase!\n\n"
            \o SearchLines(products, i + 1)

\* The listing of what is available when the search found nothing
RECURSIVE AvailableLines(_, _)
AvailableLines(products, i) ==
    IF i > Len(products) THEN ""
    ELSE LET product == products[i]
         IN Str(i) \o ". " \o product.name \o " - " \o Price(product)
            \o " (ID: " \o product.id \o ")\n"
            \o AvailableLines(products, i + 1)

\* The listing of the recommendations branch
RECURSIVE RecommendLines(_, _)
RecommendLines(products, i) ==
    IF i > Len(products) THEN ""
    ELSE LET p == products[i]
         IN Str(i) \o ". " \o p.name \o " - "
            \o (IF p.priced THEN Price(p) ELSE "Price N/A") \o "\n"
            \o (IF p.description # "" THEN "   " \o Desc80(p.description) \o "\n" ELSE "")
            \o "   ID: " \o p.id \o "\n\n"
            \o RecommendLines(products, i + 1)

\* An amount in cents as f"${x:.2f}"
Money2f(cents) == "$" \o Str(cents \div 100) \o "." \o Fmt02d(cents % 100)

\* quantity times (units + nanos / 1e9), to the nearest cent
CentsOf(units, nanos, quantity) ==
    (units * 100 + nanos \div NanosPerCent) * quantity
    + ((nanos % NanosPerCent) * quantity + NanosPerCent \div 2) \div NanosPerCent

HelpReply(mode) ==
    "I'm your shopping assistant " \o mode \o "! Here's what I can do:\n\n"
    \o "Search Products:\n"
    \o Bullet \o " \"business shoes for meetings\"\n"
    \o Bullet \o " \"casual shirts for weekend\"  \n"
    \o Bullet \o " \"blue dress under $50\"\n\n"
    \o "Cart Management:\n"
    \o Bullet \o " \"show my cart\" or \"view basket\"\n"
    \o Bullet \o " \"add PRODUCT_ID to cart\"\n"
    \o Bullet \o " \"buy 2 of PRODUCT_ID\"\n\n"
    \o "Get Recommendations:\n"
    \o Bullet \o " \"recommend something\"\n"
    \o Bullet \o " \"suggest items under $100\"\n"
    \o Bullet \o " \"what's popular?\"\n\n"
    \o "Product Details:\n"
    \o Bullet \o " \"tell me about PRODUCT_ID\"\n\n"
    \o "Just tell me what you need naturally!"

TroubleReply ==
    "I'm having trouble understanding your request right now. Could you try rephrasing it or ask me for help to see what I can do?"

-----------------------------------------------------------------------------
(* The chat turn of the full agent: /chat, process_natural_language_request *)
(* and the generative flow.  One action runs the code from one await of a   *)
(* collaborator to the next.                                                *)

\* The chat messages the model serves
Messages ==
    { "", "   ",
      "find sunglasses", "find my cart", "show my cart",
      "add OLJCESPC7Z to cart", "buy 2 of OLJCESPC7Z", "purchase ZZZZZZZZZZ",
      "buy 6E92ZMYYFZ",
      "buy a mug", "help me buy a mug",
      "recommend something under $20", "recommend something under $0",
      "suggest a gift",
      "help", "hello there", "search",
      "add all to cart", "add sunglasses to my cart", "i need a kettle",
      "what is popular" }

\* What the extractors find in each message.  They are pure functions of the
\* message (and, for by_name, of the catalog snapshot, which is Catalog
\* whenever it is not empty), tabulated here once; a turn keeps the row of
\* its message in extracted, where the handlers look the values up.
ExtractedRows ==
    { [message |-> m,
       search_terms |-> _extract_search_terms(m, "search"),
       cart_add_terms |-> _extract_search_terms(m, "cart_add"),
       product_id |-> _extract_product_id(m),
       quantity |-> _extract_quantity(m),
       budget |-> _extract_budget(m),
       keyword_intent |-> KeywordIntent(Lower(m), IntentOrder, 1),
       cart_add_intent |-> _detect_cart_add_intent(m),
       add_all |-> _is_add_all_command(m),
       by_name |-> _extract_product_by_name(m, Catalog)] : m \in Messages }

Extracted == [m \in Messages |-> CHOOSE row \in ExtractedRows : row.message = m]

turn == <<endpoint, gemini_enabled, ml_available, user_message, extracted, user_id,
          request, extraction, cart, removal, search>>

NoRequest == [shape |-> "", action |-> "", product_id |-> "", quantity |-> <<>>,
              query |-> ""]

InitLocals ==
    [product_id |-> "", quantity |-> 0, product |-> NoProduct, search_terms |-> "",
     i |-> 0, added |-> <<>>, failed |-> <<>>, items |-> <<>>, response |-> "",
     total_items |-> 0, total_value |-> 0, total_sub |-> 0, gemini_response |-> "",
     generated |-> FALSE, budget |-> <<>>, result_status |-> ""]

\* The positions inside the try block of process_natural_language_request
GeminiPcs == {"g_list", "g_cart", "g_generate", "g_search", "h_add_all",
              "h_details", "h_add_id", "h_add_name", "h_search", "h_add_best"}

\* The turn returns text; prices are the prices text shows.
Finish(text, prices) ==
    /\ pc' = "Returned"
    /\ reply' = text
    /\ status' = 200
    /\ shown' = shown \o prices

\* An exception escapes the call awaited at pc: the generative flow hands over
\* to the rule-based flow, the try block of the rule-based flow answers
\* TroubleReply, and the catalog listing ahead of that block lets it through
\* to /chat, which answers 500.
Propagate(raw) ==
    /\ UNCHANGED <<available_products, shown, intent>>
    /\ locals' = InitLocals
    /\ IF pc \in GeminiPcs
       THEN pc' = "f_list" /\ UNCHANGED <<reply, status>>
       ELSE IF pc = "f_list"
       THEN /\ pc' = "Raised"
            /\ status' = 500
            /\ reply' = FriendlyError(raw, "search").agent
       ELSE /\ pc' = "Returned"
            /\ status' = 200
            /\ reply' = TroubleReply

\* /chat up to the first await of process_natural_language_request
ChatRequest(m, u, shape) ==
    /\ pc = "Idle"
    /\ endpoint' = "chat"
    /\ user_message' = m
    /\ extracted' = Extracted[m]
    /\ user_id' = u
    /\ request' = [NoRequest EXCEPT !.shape = shape]
    /\ IF shape = "empty"
       THEN /\ pc' = "Done"
            /\ status' = 500
            /\ reply' = _get_user_friendly_error("400: No messages provided", "search")
       ELSE IF shape = "assistant_last"
       THEN /\ pc' = "Done"
            /\ status' = 500
            /\ reply' = _get_user_friendly_error("400: Last message must be from user", "search")
       ELSE IF Strip(m) = ""
       THEN /\ pc' = "Returned"
            /\ status' = 200
            /\ reply' = "I didn't catch that. Could you try again?"
       ELSE /\ pc' = IF gemini_enabled THEN "g_list" ELSE "f_list"
            /\ UNCHANGED <<status, reply>>
    /\ UNCHANGED <<gemini_enabled, ml_available, available_products, intent, calls,
                   shown, locals, match, extraction, cart, removal, search>>

\* _process_with_gemini: await self.list_all_products()
GeminiListProducts(o) ==
    /\ pc = "g_list"
    /\ calls' = Append(calls, Call("ListProducts", "", "", 0, o.kind = "ok"))
    /\ LET all_products_result == list_all_products(o)
       IN IF all_products_result.status = "raise" THEN Propagate(o.raw)
          ELSE /\ available_products' =
                      IF all_products_result.status = "success"
                      THEN all_products_result.products ELSE <<>>
               /\ pc' = "g_cart"
               /\ UNCHANGED <<intent, reply, status, shown, locals>>
    /\ UNCHANGED <<turn, match>>

\* A variant in which the cart-addition handler resolves nothing.
HandleCartAdditionSkipped ==
    /\ pc' = "g_generate"
    /\ UNCHANGED <<reply, status, shown, locals>>

\* _handle_cart_addition up to its first await; None leads on to Generate
HandleCartAddition ==
    IF extracted.add_all
    THEN IF available_products = <<>>
         THEN /\ Finish("No products are currently available to add to cart.", <<>>)
              /\ UNCHANGED locals
         ELSE /\ pc' = "h_add_all"
              /\ locals' = [locals EXCEPT !.i = 1]
              /\ UNCHANGED <<reply, status, shown>>
    ELSE LET product_id == extracted.product_id
             by_name == IF available_products # <<>>
                        THEN extracted.by_name
                        ELSE 0
             search_terms == extracted.cart_add_terms
         IN /\ UNCHANGED <<reply, status, shown>>
            /\ IF product_id # NoMatch
               THEN /\ pc' = "h_details"
                    /\ locals' = [locals EXCEPT !.product_id = product_id]
               ELSE IF by_name # 0
               THEN /\ pc' = "h_add_name"
                    /\ locals' = [locals EXCEPT
                                    !.product = available_products[by_name],
                                    !.quantity = extracted.quantity]
               ELSE IF search_terms # "" /\ Len(Strip(search_terms)) > 2
               THEN /\ pc' = "h_search"
                    /\ locals' = [locals EXCEPT !.search_terms = search_terms]
               ELSE /\ pc' = "g_generate"
                    /\ UNCHANGED locals

\* _process_with_gemini: await self.get_cart(user_id), then cart-intent detection
GeminiGetCart(o, items) ==
    /\ pc = "g_cart"
    /\ calls' = Append(calls, Call("GetCart", user_id, "", 0, o.kind = "ok"))
    /\ LET cart_result == get_cart(o, items)
       IN IF cart_result.status = "raise" THEN Propagate(o.raw)
          ELSE /\ UNCHANGED <<available_products, intent>>
               /\ IF extracted.cart_add_intent
                  THEN HandleCartAddition
                  ELSE /\ pc' = "g_generate"
                       /\ UNCHANGED <<reply, status, shown, locals>>
    /\ UNCHANGED <<turn, match>>

\* The calls an add-to-cart result stands for: the POST of the agent to
\* /add_item_to_cart when it was made, and AddItem when it was sent
AddCalls(result, user, product_id, quantity, o) ==
    (IF result.posted
     THEN <<Call("PostAddItem", user, product_id, quantity, o.kind # "http")>> ELSE <<>>)
    \o (IF result.issued
        THEN <<Call("AddItem", user, product_id, quantity, o.kind = "ok")>> ELSE <<>>)

AddedLine(product) == Bullet \o " **" \o product.name \o "** - " \o Price(product)

\* The reply of _add_all_products_to_cart
AddAllReply(added, failed) ==
    IF added = <<>> /\ failed = <<>>
    THEN "No valid products found to add to cart."
    ELSE (IF added # <<>>
          THEN "Added " \o Str(Len(added)) \o " products to your cart:\n\n"
               \o Join([i \in 1..Len(added) |-> AddedLine(added[i])], "\n")
          ELSE "")
         \o (IF failed # <<>>
             THEN "\n\nCouldn't add these products: " \o Join(failed, ", ")
             ELSE "")

MaxAddAll == 5

\* A variant of the loop that gives up at the first product that cannot be
\* added.
HandleAddAllStopping(o) ==
    /\ pc = "h_add_all"
    /\ LET products_to_add == Take(available_products, MaxAddAll)
           product == products_to_add[locals.i]
           result == IF product.id # ""
                     THEN add_to_cart(user_id, product.id, 1, o)
                     ELSE [status |-> "skip", message |-> "", posted |-> FALSE, issued |-> FALSE]
           added == IF result.status = "success"
                    THEN Append(locals.added, product) ELSE locals.added
           failed == IF result.status \notin {"success", "skip"}
                     THEN Append(locals.failed, product.name) ELSE locals.failed
       IN /\ calls' = calls \o AddCalls(result, user_id, product.id, 1, o)
          /\ UNCHANGED <<available_products, intent>>
          /\ locals' = [locals EXCEPT !.i = @ + 1, !.added = added, !.failed = failed]
          /\ IF locals.i < Len(products_to_add) /\ result.status \in {"success", "skip"}
             THEN UNCHANGED <<pc, reply, status, shown>>
             ELSE Finish(AddAllReply(added, failed), ShownOf(added))
    /\ UNCHANGED <<turn, match>>

\* _add_all_products_to_cart: one iteration of its loop
HandleAddAll(o) ==
    /\ pc = "h_add_all"
    /\ LET products_to_add == Take(available_products, MaxAddAll)
           product == products_to_add[locals.i]
           result == IF product.id # ""
                     THEN add_to_cart(user_id, product.id, 1, o)
                     ELSE [status |-> "skip", message |-> "", posted |-> FALSE, issued |-> FALSE]
           added == IF result.status = "success"
                    THEN Append(locals.added, product) ELSE locals.added
           failed == IF result.status \notin {"success", "skip"}
                     THEN Append(locals.failed, product.name) ELSE locals.failed
       IN /\ calls' = calls \o AddCalls(result, user_id, product.id, 1, o)
          /\ IF result.status = "raise" THEN Propagate(o.raw)
             ELSE /\ UNCHANGED <<available_products, intent>>
                  /\ locals' = [locals EXCEPT !.i = @ + 1, !.added = added,
                                              !.failed = failed]
                  /\ IF locals.i < Len(products_to_add)
                     THEN UNCHANGED <<pc, reply, status, shown>>
                     ELSE Finish(AddAllReply(added, failed), ShownOf(added))
    /\ UNCHANGED <<turn, match>>

\* _handle_cart_addition: await self.get_product_details(product_id)
HandleProductDetails(o) ==
    /\ pc = "h_details"
    /\ o \in ProductOutcomes(locals.product_id)
    /\ calls' = Append(calls, Call("GetProduct", "", locals.product_id, 0, o.kind = "ok"))
    /\ LET product_details == get_product_details(locals.product_id, o)
       IN IF product_details.status = "raise" THEN Propagate(o.raw)
          ELSE /\ UNCHANGED <<available_products, intent>>
               /\ IF product_details.status = "success"
                  THEN /\ pc' = "h_add_id"
                       /\ locals' = [locals EXCEPT
                                       !.product = product_details.product,
                                       !.quantity = extracted.quantity]
                       /\ UNCHANGED <<reply, status, shown>>
                  ELSE /\ Finish("Product ID '" \o locals.product_id
                                 \o "' not found. Please search for products to get valid IDs.",
                                 <<>>)
                       /\ UNCHANGED locals
    /\ UNCHANGED <<turn, match>>

\* _handle_cart_addition: await self.add_to_cart(...) for an explicit id
HandleAddById(o) ==
    /\ pc = "h_add_id"
    /\ LET result == add_to_cart(user_id, locals.product_id, locals.quantity, o)
       IN /\ calls' = calls \o AddCalls(result, user_id, locals.product_id, locals.quantity, o)
          /\ IF result.status = "raise" THEN Propagate(o.raw)
             ELSE /\ UNCHANGED <<available_products, intent, locals>>
                  /\ IF result.status = "success"
                     THEN Finish(AddedReply(locals.quantity, locals.product),
                                 ShownOf(<<locals.product>>))
                     ELSE Finish("Couldn't add item to cart: " \o result.message, <<>>)
    /\ UNCHANGED <<turn, match>>

\* _handle_cart_addition: await self.add_to_cart(...) for a product found by name
HandleAddByName(o) ==
    /\ pc = "h_add_name"
    /\ LET result == add_to_cart(user_id, locals.product.id, locals.quantity, o)
       IN /\ calls' = calls \o AddCalls(result, user_id, locals.product.id, locals.quantity, o)
          /\ IF result.status = "raise" THEN Propagate(o.raw)
             ELSE /\ UNCHANGED <<available_products, intent, locals>>
                  /\ IF result.status = "success"
                     THEN Finish(AddedReply(locals.quantity, locals.product),
                                 ShownOf(<<locals.product>>))
                     ELSE Finish("Found '" \o locals.product.name
                                 \o "' but couldn't add to cart: " \o result.message, <<>>)
    /\ UNCHANGED <<turn, match>>

\* _handle_cart_addition: await self.search_products(search_terms, enhanced=True)
HandleSearch(o, results) ==
    /\ pc = "h_search"
    /\ calls' = calls \o SearchCalls(TRUE, o)
    /\ LET search_result == search_products(o, results)
           products == search_result.results
           best == _find_best_product_match(user_message, products)
       IN IF search_result.status = "raise" THEN Propagate(o.raw)
          ELSE /\ UNCHANGED <<available_products, intent>>
               /\ IF search_result.status = "success" /\ products # <<>>
                  THEN IF best # 0
                       THEN /\ pc' = "h_add_best"
                            /\ locals' = [locals EXCEPT
                                            !.product = products[best],
                                            !.quantity = extracted.quantity]
                            /\ UNCHANGED <<reply, status, shown>>
                       ELSE /\ Finish("Found " \o Str(Len(products)) \o " products for '"
                                      \o locals.search_terms \o "':\n\n"
                                      \o OptionLines(Take(products, 3), 1)
                                      \o "To add any item, say 'add " \o products[1].id
                                      \o " to cart'!",
                                      ShownOf(Take(products, 3)))
                            /\ UNCHANGED locals
                  ELSE /\ Finish("Couldn't find products matching '" \o locals.search_terms
                                 \o "'. Try different keywords.", <<>>)
                       /\ UNCHANGED locals
    /\ UNCHANGED <<turn, match>>

\* _handle_cart_addition: await self.add_to_cart(...) for the best search match
HandleAddBest(o) ==
    /\ pc = "h_add_best"
    /\ LET result == add_to_cart(user_id, locals.product.id, locals.quantity, o)
       IN /\ calls' = calls \o AddCalls(result, user_id, locals.product.id, locals.quantity, o)
          /\ IF result.status = "raise" THEN Propagate(o.raw)
             ELSE /\ UNCHANGED <<available_products, intent, locals>>
                  /\ IF result.status = "success"
                     THEN Finish(AddedReply(locals.quantity, locals.product)
                                 \o "\n\nThis was the best match for '"
                                 \o locals.search_terms \o "'.",
                                 ShownOf(<<locals.product>>))
                     ELSE Finish("Found '" \o locals.product.name
                                 \o "' but couldn't add to cart: " \o result.message, <<>>)
    /\ UNCHANGED <<turn, match>>

\* _process_with_gemini: await self.gemini.generate_response(prompt), then the
\* test of the answer
GeminiGenerate(o) ==
    /\ pc = "g_generate"
    /\ calls' = Append(calls, Call("Generate", "", "", 0, o.kind = "text"))
    /\ LET gemini_response == generate_response(gemini_enabled, o)
           search_terms == extracted.search_terms
       IN /\ UNCHANGED <<available_products, intent>>
          /\ IF GeminiRejected(gemini_response)
             THEN IF search_terms # ""
                  THEN /\ pc' = "g_search"
                       /\ locals' = [locals EXCEPT !.gemini_response = gemini_response,
                                                   !.generated = TRUE,
                                                   !.search_terms = search_terms]
                       /\ UNCHANGED <<reply, status, shown>>
                  ELSE /\ Finish("I'd be happy to help you find something! Could you tell me more specifically what you're looking for?", <<>>)
                       /\ locals' = [locals EXCEPT !.gemini_response = gemini_response,
                                                   !.generated = TRUE]
             ELSE /\ Finish(gemini_response, <<>>)
                  /\ locals' = [locals EXCEPT !.gemini_response = gemini_response,
                                              !.generated = TRUE]
    /\ UNCHANGED <<turn, match>>

\* _process_with_gemini: await self.search_products(search_terms, enhanced=True)
\* after a rejected answer
GeminiSearch(o, results) ==
    /\ pc = "g_search"
    /\ calls' = calls \o SearchCalls(TRUE, o)
    /\ LET search_result == search_products(o, results)
           products == Take(search_result.results, 3)
       IN IF search_result.status = "raise" THEN Propagate(o.raw)
          ELSE /\ UNCHANGED <<available_products, intent, locals>>
               /\ IF search_result.status = "success" /\ search_result.results # <<>>
                  THEN Finish("I found these products matching '" \o locals.search_terms
                              \o "':\n\n" \o GeminiSearchLines(products, 1)
                              \o "To add any item to your cart, just say 'add [PRODUCT_ID] to cart'!",
                              ShownOf(products))
                  ELSE Finish("I couldn't find products matching '" \o locals.search_terms
                              \o "' in our current inventory. Here's what we have available: "
                              \o Join(Names(Take(available_products, 5)), ", "), <<>>)
    /\ UNCHANGED <<turn, match>>

-----------------------------------------------------------------------------
(* The rule-based flow: _process_with_fallback                              *)

\* What the embedding comparison of classify_intent can come to: no model
\* loaded, an exception, a best score of at most 0.3, or the best intent.
MLOutcomes(model) ==
    IF model THEN {"fail", "low"} \cup Range(IntentOrder) ELSE {"none"}

\* A variant that lets the outcome of the embedding comparison through
\* whatever it is.
classify_intent_unguarded(keyword, ml) ==
    IF keyword # "none" THEN keyword
    ELSE IF ml = "none" THEN "search"
    ELSE ml

\* SemanticSearchEngine.classify_intent, given what its keyword loop finds in
\* the text (KeywordIntent) and what the embedding comparison comes to
classify_intent(keyword, ml) ==
    IF keyword # "none" THEN keyword
    ELSE IF ml \in Range(IntentOrder) THEN ml
    ELSE "search"

\* if budget: a float is true unless it is 0.0
BudgetGiven(budget) == budget # <<>> /\ budget # <<0, 0>>

\* total <= budget for total = units + nanos / 1e9; at_equal is what the
\* floating-point comparison gives when the two amounts are equal
WithinBudget(p, budget, at_equal) ==
    LET cents == p.units * 100 + p.nanos \div NanosPerCent
        sub == p.nanos % NanosPerCent
        limit == budget[1] * 100 + budget[2]
    IN IF cents = limit /\ sub = 0 THEN at_equal
       ELSE cents < limit

\* _process_with_fallback: await self.list_all_products(), classification, and
\* the branch taken up to its first await
FallbackListProducts(o, ml) ==
    /\ pc = "f_list"
    /\ calls' = Append(calls, Call("ListProducts", "", "", 0, o.kind = "ok"))
    /\ LET all_products_result == list_all_products(o)
           i == classify_intent(extracted.keyword_intent, ml)
           search_terms == extracted.search_terms
           product_id == extracted.product_id
           mode == IF gemini_enabled THEN "with Gemini AI"
                   ELSE IF ml_available THEN "with semantic search"
                   ELSE "with basic matching"
       IN IF all_products_result.status = "raise" THEN Propagate(o.raw)
          ELSE /\ available_products' =
                      IF all_products_result.status = "success"
                      THEN all_products_result.products ELSE <<>>
               /\ intent' = i
               /\ IF i = "search" /\ search_terms # ""
                  THEN /\ pc' = "f_search"
                       /\ locals' = [locals EXCEPT !.search_terms = search_terms]
                       /\ UNCHANGED <<reply, status, shown>>
                  ELSE IF i = "search"
                  THEN /\ Finish("What would you like me to search for? Try something like 'show me watches' or 'find kitchen items'.", <<>>)
                       /\ UNCHANGED locals
                  ELSE IF i = "cart_add" /\ product_id # NoMatch
                  THEN /\ pc' = "f_details"
                       /\ locals' = [locals EXCEPT !.product_id = product_id]
                       /\ UNCHANGED <<reply, status, shown>>
                  ELSE IF i = "cart_add"
                  THEN /\ Finish("To add items to cart, please specify the product ID. Example: 'add OLJCESPC7Z to cart'\n\nSearch for products first to get their IDs!", <<>>)
                       /\ UNCHANGED locals
                  ELSE IF i = "cart_view"
                  THEN /\ pc' = "f_cart"
                       /\ UNCHANGED <<reply, status, shown, locals>>
                  ELSE IF i = "recommendations"
                  THEN /\ pc' = "f_recommend"
                       /\ locals' = [locals EXCEPT !.budget = extracted.budget]
                       /\ UNCHANGED <<reply, status, shown>>
                  ELSE IF i = "help"
                  THEN /\ Finish(HelpReply(mode), <<>>)
                       /\ UNCHANGED locals
                  ELSE /\ Finish("I can help you find products, manage your cart, or get recommendations. What are you looking for?", <<>>)
                       /\ UNCHANGED locals
    /\ UNCHANGED <<turn, match>>

\* search branch: await self.search_products(search_terms, enhanced=enhanced)
FallbackSearch(o, results) ==
    /\ pc = "f_search"
    /\ calls' = calls \o SearchCalls(ml_available, o)
    /\ LET result == search_products(o, results)
           products == Take(result.results, 5)
           available == Take(available_products, 5)
       IN IF result.status = "raise" THEN Propagate(o.raw)
          ELSE /\ UNCHANGED <<available_products, intent, locals>>
               /\ IF result.status = "success" /\ result.results # <<>>
                  THEN Finish("I found " \o Str(Len(products))
                              \o " products in our boutique matching '"
                              \o locals.search_terms \o "':\n\n" \o SearchLines(products, 1),
                              ShownOf(SelectSeq(products, LAMBDA p : p.priced)))
                  ELSE IF available_products # <<>>
                  THEN Finish("I couldn't find products matching '" \o locals.search_terms
                              \o "' in our boutique.\n\n"
                              \o "Here's what we have available:\n"
                              \o AvailableLines(available, 1),
                              ShownOf(available))
                  ELSE Finish("Sorry, I couldn't find any products matching your search.", <<>>)
    /\ UNCHANGED <<turn, match>>

\* cart_add branch: await self.get_product_details(product_id)
FallbackProductDetails(o) ==
    /\ pc = "f_details"
    /\ o \in ProductOutcomes(locals.product_id)
    /\ calls' = Append(calls, Call("GetProduct", "", locals.product_id, 0, o.kind = "ok"))
    /\ LET product_details == get_product_details(locals.product_id, o)
       IN IF product_details.status = "raise" THEN Propagate(o.raw)
          ELSE /\ UNCHANGED <<available_products, intent>>
               /\ IF product_details.status = "success"
                  THEN /\ pc' = "f_add"
                       /\ locals' = [locals EXCEPT
                                       !.product = product_details.product,
                                       !.quantity = extracted.quantity]
                       /\ UNCHANGED <<reply, status, shown>>
                  ELSE /\ Finish("Product ID '" \o locals.product_id
                                 \o "' not found. Please search for products to get valid IDs.",
                                 <<>>)
                       /\ UNCHANGED locals
    /\ UNCHANGED <<turn, match>>

\* cart_add branch: await self.add_to_cart(user_id, product_id, quantity)
FallbackAddToCart(o) ==
    /\ pc = "f_add"
    /\ LET result == add_to_cart(user_id, locals.product_id, locals.quantity, o)
           product == locals.product
       IN /\ calls' = calls \o AddCalls(result, user_id, locals.product_id, locals.quantity, o)
          /\ IF result.status = "raise" THEN Propagate(o.raw)
             ELSE /\ UNCHANGED <<available_products, intent, locals>>
                  /\ IF result.status = "success"
                     THEN Finish("Added " \o Str(locals.quantity) \o "x " \o product.name
                                 \o " (" \o Price(product) \o " each) to your cart!",
                                 ShownOf(<<product>>))
                     ELSE Finish("Couldn't add item to cart: " \o result.message, <<>>)
    /\ UNCHANGED <<turn, match>>

\* The closing lines of the cart view
CartViewReply(response, total_items, cents) ==
    response \o "**Total: " \o Str(total_items) \o " items, " \o Money2f(cents) \o "**\n\n"
    \o "Say 'remove [PRODUCT_ID] from cart' to remove items!"

\* cart_view branch: await self.get_cart(user_id)
FallbackGetCart(o, items) ==
    /\ pc = "f_cart"
    /\ calls' = Append(calls, Call("GetCart", user_id, "", 0, o.kind = "ok"))
    /\ LET result == get_cart(o, items)
       IN IF result.status = "raise" THEN Propagate(o.raw)
          ELSE /\ UNCHANGED <<available_products, intent>>
               /\ IF result.status = "success" /\ result.items # <<>>
                  THEN /\ pc' = "f_cart_item"
                       /\ locals' = [locals EXCEPT
                              !.items = result.items, !.i = 1,
                              !.response = "Your shopping cart ("
                                  \o Str(Len(result.items)) \o " unique items):\n\n"]
                       /\ UNCHANGED <<reply, status, shown>>
                  ELSE IF result.status = "success"
                  THEN /\ Finish("Your cart is empty. Search for products to add!\n\nTry: 'show me watches' or 'find kitchen items'", <<>>)
                       /\ UNCHANGED locals
                  ELSE /\ Finish("Couldn't access your cart right now. Please try again.", <<>>)
                       /\ UNCHANGED locals
    /\ UNCHANGED <<turn, match>>

\* cart_view branch: one iteration of the loop over the items, with its
\* await self.get_product_details(product_id)
FallbackCartItem(o) ==
    /\ pc = "f_cart_item"
    /\ LET item == locals.items[locals.i]
           qty == item.quantity
           product_details == get_product_details(item.product_id, o)
           product == product_details.product
           found == product_details.status = "success"
           each == Money2f(CentsOf(product.units, product.nanos, 1))
           response ==
               locals.response \o
               (IF found
                THEN Bullet \o " **" \o product.name \o "** x" \o Str(qty) \o "\n"
                     \o "  " \o each \o " each = "
                     \o Money2f(CentsOf(product.units, product.nanos, qty)) \o "\n"
                     \o "  ID: " \o item.product_id \o "\n\n"
                ELSE Bullet \o " Product " \o item.product_id \o " x" \o Str(qty)
                     \o " (details unavailable)\n\n")
           total_items == locals.total_items + qty
           total_value == locals.total_value
               + (IF found
                  THEN (product.units * 100 + product.nanos \div NanosPerCent) * qty
                  ELSE 0)
           total_sub == locals.total_sub
               + (IF found THEN (product.nanos % NanosPerCent) * qty ELSE 0)
           prices == IF found THEN <<<<product.units, product.nanos, each>>>> ELSE <<>>
       IN /\ o \in ProductOutcomes(item.product_id)
          /\ calls' = Append(calls, Call("GetProduct", "", item.product_id, 0, o.kind = "ok"))
          /\ IF product_details.status = "raise" THEN Propagate(o.raw)
             ELSE /\ UNCHANGED <<available_products, intent>>
                  /\ locals' = [locals EXCEPT !.i = @ + 1, !.response = response,
                                   !.total_items = total_items,
                                   !.total_value = total_value,
                                   !.total_sub = total_sub]
                  /\ IF locals.i < Len(locals.items)
                     THEN /\ shown' = shown \o prices
                          /\ UNCHANGED <<pc, reply, status>>
                     ELSE Finish(CartViewReply(response, total_items,
                                     total_value
                                     + (total_sub + NanosPerCent \div 2) \div NanosPerCent),
                                 prices)
    /\ UNCHANGED <<turn, match>>

MaxRecommendations == 6

\* recommendations branch: await self.list_all_products()
FallbackRecommend(o, at_equal) ==
    /\ pc = "f_recommend"
    /\ calls' = Append(calls, Call("ListProducts", "", "", 0, o.kind = "ok"))
    /\ LET result == list_all_products(o)
           budget == locals.budget
           products ==
               IF BudgetGiven(budget)
               THEN SelectSeq(result.products,
                              LAMBDA p : p.priced /\ WithinBudget(p, budget, at_equal))
               ELSE result.products
           recommendations == Take(products, MaxRecommendations)
           budget_text == IF BudgetGiven(budget) THEN " under $" \o FloatStr(budget) ELSE ""
       IN IF result.status = "raise" THEN Propagate(o.raw)
          ELSE /\ UNCHANGED <<available_products, intent, locals>>
               /\ IF result.status = "success" /\ result.products # <<>>
                  THEN Finish("Here are my top recommendations" \o budget_text \o ":\n\n"
                              \o RecommendLines(recommendations, 1),
                              ShownOf(SelectSeq(recommendations, LAMBDA p : p.priced)))
                  ELSE Finish("Can't get recommendations right now. Please try again later.", <<>>)
    /\ UNCHANGED <<turn, match>>

-----------------------------------------------------------------------------
(* The other endpoints: /cart/action of both agents, /search of the no-ML   *)
(* agent, and /add_item_to_cart of the MCP server called directly           *)

\* Optional fields: None is NoMatch for a string and <<>> for a number.
\* request.quantity or 1
QuantityOr1(quantity) == IF quantity = <<>> \/ quantity[1] = 0 THEN 1 ELSE quantity[1]

\* request.product_id as a condition
Truthy(s) == s # NoMatch /\ s # ""

\* The calls of a /cart/action request
ActionCalls(action, result, user, product_id, quantity, o) ==
    IF action = "add" /\ Truthy(product_id)
    THEN AddCalls(result, user, product_id, quantity, o)
    ELSE IF action = "view" THEN <<Call("GetCart", user, "", 0, o.kind = "ok")>>
    ELSE IF action = "clear" THEN <<Call("EmptyCart", user, "", 0, o.kind = "ok")>>
    ELSE <<>>

\* /cart/action of the full agent
CartAction(user, action, product_id, quantity, o, items) ==
    /\ pc = "Idle"
    /\ endpoint' = "cart_action"
    /\ user_id' = user
    /\ request' = [NoRequest EXCEPT !.action = action, !.product_id = product_id,
                                    !.quantity = quantity]
    /\ LET valid == action \in {"view", "clear"} \/ (action = "add" /\ Truthy(product_id))
           result == IF action = "add"
                     THEN add_to_cart(user, product_id, QuantityOr1(quantity), o)
                     ELSE IF action = "view" THEN get_cart(o, items)
                     ELSE empty_cart(user, o)
           operation == IF action = "add" THEN "cart_add" ELSE "cart_view"
       IN IF ~valid
          THEN /\ status' = 400
               /\ reply' = "Invalid action"
               /\ UNCHANGED <<calls, locals>>
          ELSE /\ calls' = calls \o ActionCalls(action, result, user, product_id,
                                                QuantityOr1(quantity), o)
               /\ locals' = [locals EXCEPT !.result_status = result.status]
               /\ IF result.status = "raise"
                  THEN /\ status' = 500
                       /\ reply' = _get_user_friendly_error(o.raw, "cart_view")
                  ELSE IF result.status = "error"
                  THEN /\ status' = 500
                       /\ reply' = _get_user_friendly_error(result.message, operation)
                  ELSE /\ status' = 200
                       /\ reply' = result.message
    /\ pc' = "Done"
    /\ UNCHANGED <<gemini_enabled, ml_available, user_message, extracted, extraction,
                   cart, removal, search,
                   available_products,
                   intent, shown, match>>

\* ShoppingAgent.get_cart and empty_cart of the no-ML agent: str(e) as message
get_cart_no_ML(o, items) ==
    IF o.kind = "http"
    THEN [status |-> "error", message |-> o.raw, items |-> <<>>]
    ELSE get_cart(o, items)

empty_cart_no_ML(user, o) ==
    IF o.kind = "http"
    THEN [status |-> "error", message |-> o.raw]
    ELSE empty_cart(user, o)

\* /cart/action of the no-ML agent
CartActionNoML(user, action, product_id, quantity, o, items) ==
    /\ pc = "Idle"
    /\ endpoint' = "cart_action_no_ML"
    /\ user_id' = user
    /\ request' = [NoRequest EXCEPT !.action = action, !.product_id = product_id,
                                    !.quantity = quantity]
    /\ LET valid == action \in {"view", "clear"} \/ (action = "add" /\ Truthy(product_id))
           result == IF action = "add"
                     THEN add_to_cart_no_ML(user, product_id, QuantityOr1(quantity), o)
                     ELSE IF action = "view" THEN get_cart_no_ML(o, items)
                     ELSE empty_cart_no_ML(user, o)
       IN IF ~valid
          THEN /\ status' = 400
               /\ reply' = "Invalid action"
               /\ UNCHANGED <<calls, locals>>
          ELSE /\ calls' = calls \o ActionCalls(action, result, user, product_id,
                                                QuantityOr1(quantity), o)
               /\ locals' = [locals EXCEPT !.result_status = result.status]
               /\ IF result.status = "raise"
                  THEN /\ status' = 500
                       /\ reply' = o.raw
                  ELSE IF result.status = "error"
                  THEN /\ status' = 500
                       /\ reply' = result.message
                  ELSE /\ status' = 200
                       /\ reply' = result.message
    /\ pc' = "Done"
    /\ UNCHANGED <<gemini_enabled, ml_available, user_message, extracted, extraction,
                   cart, removal, search,
                   available_products,
                   intent, shown, match>>

\* /search of the no-ML agent
SearchNoML(user, query, o, results) ==
    /\ pc = "Idle"
    /\ endpoint' = "search_no_ML"
    /\ user_id' = user
    /\ request' = [NoRequest EXCEPT !.query = query]
    /\ calls' = calls \o SearchCalls(ml_available, o)
    /\ LET result == search_products_no_ML(o, results)
       IN /\ locals' = [locals EXCEPT !.result_status = result.status]
          /\ IF result.status = "error"
             THEN status' = 500 /\ reply' = result.message
             ELSE status' = 200 /\ reply' = ""
    /\ pc' = "Done"
    /\ UNCHANGED <<gemini_enabled, ml_available, user_message, extracted, extraction,
                   cart, removal, search,
                   available_products,
                   intent, shown, match>>

\* /add_item_to_cart of the MCP server, called directly
AddItemToCart(user, product_id, quantity, o) ==
    /\ pc = "Idle"
    /\ endpoint' = "add_item_to_cart"
    /\ user_id' = user
    /\ request' = [NoRequest EXCEPT !.action = "add", !.product_id = product_id,
                                    !.quantity = <<quantity>>]
    /\ LET result == add_item_to_cart(user, product_id, quantity, o)
       IN /\ calls' = calls \o AddCalls(result, user, product_id, quantity, o)
          /\ locals' = [locals EXCEPT !.result_status = result.status]
          /\ status' = 200
          /\ reply' = result.message
    /\ pc' = "Done"
    /\ UNCHANGED <<gemini_enabled, ml_available, user_message, extracted, extraction,
                   cart, removal, search,
                   available_products,
                   intent, shown, match>>

-----------------------------------------------------------------------------
(* Fuzzy matching: difflib.SequenceMatcher and the matchers built on it.    *)
(* A score is a fraction <<numerator, denominator>> with a positive         *)
(* denominator.                                                             *)

Leq(x, y) == x[1] * y[2] <= y[1] * x[2]
Same(x, y) == x[1] * y[2] = y[1] * x[2]
MaxScore(x, y) == IF Leq(y, x) THEN x ELSE y

SetMax(S) == CHOOSE x \in S : \A y \in S : y <= x
SetMin(S) == CHOOSE x \in S : \A y \in S : x <= y

\* the length of the longest common run of a[i..ahi] and b[j..bhi]
RECURSIVE RunLen(_, _, _, _, _, _)
RunLen(a, i, ahi, b, j, bhi) ==
    IF i <= ahi /\ j <= bhi /\ Ch(a, i) = Ch(b, j)
    THEN 1 + RunLen(a, i + 1, ahi, b, j + 1, bhi)
    ELSE 0

\* SequenceMatcher.find_longest_match over a[alo..ahi] and b[blo..bhi]:
\* <<i, j, k>> with k maximal, then i minimal, then j minimal
find_longest_match(a, alo, ahi, b, blo, bhi) ==
    LET sizes == {RunLen(a, i, ahi, b, j, bhi) : i \in alo..ahi, j \in blo..bhi}
        k == IF sizes = {} THEN 0 ELSE SetMax(sizes)
        besti == SetMin({i \in alo..ahi :
                            \E j \in blo..bhi : RunLen(a, i, ahi, b, j, bhi) = k})
        bestj == SetMin({j \in blo..bhi : RunLen(a, besti, ahi, b, j, bhi) = k})
    IN IF k = 0 THEN <<alo, blo, 0>> ELSE <<besti, bestj, k>>

\* The sum of the sizes of SequenceMatcher.get_matching_blocks(): the longest
\* match, then the same to its left and to its right
RECURSIVE MatchedSize(_, _, _, _, _, _)
MatchedSize(a, alo, ahi, b, blo, bhi) ==
    IF alo > ahi \/ blo > bhi THEN 0
    ELSE SetMax({ IF m[3] = 0 THEN 0
                  ELSE m[3] + MatchedSize(a, alo, m[1] - 1, b, blo, m[2] - 1)
                            + MatchedSize(a, m[1] + m[3], ahi, b, m[2] + m[3], bhi) :
                  m \in {find_longest_match(a, alo, ahi, b, blo, bhi)} })

\* SequenceMatcher(None, a, b).ratio(): 2.0 * matches / (len(a) + len(b)),
\* and 1.0 for two empty strings
ratio(a, b) ==
    IF Len(a) + Len(b) = 0 THEN <<1, 1>>
    ELSE <<2 * MatchedSize(a, 1, Len(a), b, 1, Len(b)), Len(a) + Len(b)>>

\* The singular forms tried for a query that ends in "s"
SingularVariants(query_lower) ==
    <<query_lower, RStripCh(query_lower, "s")>>
    \o (IF EndsWith(query_lower, "es") /\ Len(query_lower) > 4
        THEN <<SubSeq(query_lower, 1, Len(query_lower) - 2)>> ELSE <<>>)

\* query_variants of enhanced_fuzzy_match_products
EnhancedVariants(query_lower) ==
    IF EndsWith(query_lower, "s") /\ Len(query_lower) > 3
    THEN SingularVariants(query_lower)
    ELSE <<query_lower, query_lower \o "s", query_lower \o "es">>

\* query_variants of the agent's fuzzy_match_products
FuzzyVariants(query_lower) ==
    IF EndsWith(query_lower, "s") /\ Len(query_lower) > 3
    THEN SingularVariants(query_lower)
    ELSE <<query_lower, query_lower \o "s">>
         \o (IF ~EndsWith(query_lower, "e") THEN <<query_lower \o "es">> ELSE <<>>)

\* The words of all the variants, without duplicates
VariantWords(variants) ==
    UNION {Range(Split(variants[v])) : v \in 1..Len(variants)}

\* f"{name_lower} {desc_lower} {categories_lower}"
SearchableText(product) ==
    Lower(product.name) \o " " \o Lower(product.description) \o " "
    \o Lower(Join(product.categories, " "))

\* max_similarity after the loop over the variants: the best ratio of a
\* variant to the name, the description or the joined categories
RECURSIVE MaxSimilarity(_, _, _)
MaxSimilarity(variants, product, k) ==
    IF k > Len(variants) THEN <<0, 1>>
    ELSE MaxScore(MaxScore(MaxSimilarity(variants, product, k + 1),
                           ratio(variants[k], Lower(product.name))),
                  MaxScore(ratio(variants[k], Lower(product.description)),
                           ratio(variants[k], Lower(Join(product.categories, " ")))))

\* What one query word adds to the count of matches, in tenths: 1 when it
\* occurs in the text, 0.7 when it occurs in a word, 0.5 when a word occurs
\* in it
WordPoints(q_word, searchable_text) ==
    LET words == SelectSeq(Split(searchable_text), LAMBDA w : Len(w) >= 3)
    IN IF Contains(q_word, searchable_text) THEN 10
       ELSE IF \E i \in 1..Len(words) : Contains(q_word, words[i]) THEN 7
       ELSE IF \E i \in 1..Len(words) : Contains(words[i], q_word) THEN 5
       ELSE 0

\* The count of matches over the query words, in tenths
RECURSIVE SumPoints(_, _)
SumPoints(query_words, searchable_text) ==
    IF query_words = {} THEN 0
    ELSE LET q_word == CHOOSE w \in query_words : TRUE
         IN WordPoints(q_word, searchable_text)
            + SumPoints(query_words \ {q_word}, searchable_text)

\* word_score * 0.9 for word_score = matches / total_words
WeightedWordScore(points, total_words) == <<9 * points, 100 * total_words>>

\* A variant in which no product gets the boost.
InNameNever(variants, product) == FALSE

\* variant in name_lower for some variant
InName(variants, product) ==
    \E v \in 1..Len(variants) : Contains(variants[v], Lower(product.name))

\* A variant in which the three scores are added up.
final_score_added(max_similarity, word_score, category_score) ==
    << max_similarity[1] * word_score[2] * category_score[2]
       + word_score[1] * max_similarity[2] * category_score[2]
       + category_score[1] * max_similarity[2] * word_score[2],
       max_similarity[2] * word_score[2] * category_score[2] >>

\* final_score = max(max_similarity, word_score * 0.9, category_score)
final_score(max_similarity, word_score, category_score) ==
    MaxScore(MaxScore(max_similarity, word_score), category_score)

\* The final score enhanced_fuzzy_match_products gives a product
EnhancedScore(query, product) ==
    LET query_lower == Strip(Lower(query))
        query_variants == EnhancedVariants(query_lower)
        query_words == VariantWords(query_variants)
        total_words == Cardinality(query_words)
        searchable_text == SearchableText(product)
        word_score ==
            IF total_words > 0
            THEN WeightedWordScore(
                     SumPoints({w \in query_words : Len(w) >= 3}, searchable_text),
                     total_words)
            ELSE <<0, 1>>
        category_score ==
            IF \E c \in 1..Len(product.categories), v \in 1..Len(query_variants) :
                   \/ Contains(query_variants[v], Lower(product.categories[c]))
                   \/ Contains(Lower(product.categories[c]), query_variants[v])
            THEN <<4, 5>> ELSE <<0, 1>>
        combined == final_score(MaxSimilarity(query_variants, product, 1),
                                word_score, category_score)
    IN IF InName(query_variants, product) THEN MaxScore(combined, <<4, 5>>)
       ELSE combined

\* The final score the agent's fuzzy_match_products gives a product
FuzzyScore(query, product) ==
    LET query_lower == Strip(Lower(query))
        query_variants == FuzzyVariants(query_lower)
        query_words == {w \in VariantWords(query_variants) : Len(w) > 2}
        direct == MaxSimilarity(query_variants, product, 1)
        max_similarity ==
            IF query_words # {}
            THEN MaxScore(direct,
                          WeightedWordScore(
                              SumPoints(query_words, SearchableText(product)),
                              Cardinality(query_words)))
            ELSE direct
    IN IF InName(query_variants, product) THEN MaxScore(max_similarity, <<4, 5>>)
       ELSE max_similarity

\* The products with their final scores, in arrival order
RECURSIVE ScoreAll(_, _, _, _)
ScoreAll(matcher, query, products, k) ==
    IF k > Len(products) THEN <<>>
    ELSE << [product |-> products[k],
             score |-> IF matcher = "enhanced"
                       THEN EnhancedScore(query, products[k])
                       ELSE FuzzyScore(query, products[k])] >>
         \o ScoreAll(matcher, query, products, k + 1)

\* A variant that puts an entry ahead of the entries of equal score.
InsertAheadOfEqual(sorted, entry) ==
    LET n == Cardinality({i \in 1..Len(sorted) : ~Leq(sorted[i].score, entry.score)})
    IN SubSeq(sorted, 1, n) \o <<entry>> \o SubSeq(sorted, n + 1, Len(sorted))

\* Where list.sort(key=_similarity, reverse=True) leaves an entry among the
\* entries before it: behind every entry whose score is not smaller
InsertByScore(sorted, entry) ==
    LET n == Cardinality({i \in 1..Len(sorted) : Leq(entry.score, sorted[i].score)})
    IN SubSeq(sorted, 1, n) \o <<entry>> \o SubSeq(sorted, n + 1, Len(sorted))

\* matched_products.sort(key=lambda x: x.get('_similarity', 0), reverse=True)
RECURSIVE SortBySimilarity(_, _)
SortBySimilarity(entries, k) ==
    IF k = 0 THEN <<>>
    ELSE InsertByScore(SortBySimilarity(entries, k - 1), entries[k])

\* The filter on the threshold, the sort and the removal of the scores
MatchedProducts(entries, threshold) ==
    LET kept == SelectSeq(entries, LAMBDA e : Leq(threshold, e.score))
        sorted == SortBySimilarity(kept, Len(kept))
    IN [i \in 1..Len(sorted) |-> sorted[i].product]

\* enhanced_fuzzy_match_products of the MCP server
enhanced_fuzzy_match_products(query, products, threshold) ==
    MatchedProducts(ScoreAll("enhanced", query, products, 1), threshold)

\* fuzzy_match_products of the agent
fuzzy_match_products(query, products, threshold) ==
    MatchedProducts(ScoreAll("fuzzy", query, products, 1), threshold)

\* No matcher has been called
NoCall == [phase |-> "none", matcher |-> "", query |-> "", threshold |-> <<0, 1>>,
           products |-> <<>>, scores |-> <<>>, result |-> <<>>]

\* No extractor has been called
NoExtraction == [phase |-> "none", function |-> "", text |-> "", model |-> FALSE,
                 ml |-> "none", value |-> ""]

\* What a matcher leaves behind: the final scores in arrival order and the
\* products it returns
MatchReturn(matcher, entries, result) ==
    [match EXCEPT !.phase = "returned", !.matcher = matcher,
                  !.scores = [i \in 1..Len(entries) |-> entries[i].score],
                  !.result = result]

\* The MCP server matches the query against the catalog
EnhancedMatch ==
    /\ match.phase = "called"
    /\ match' = MatchReturn("enhanced",
                         ScoreAll("enhanced", match.query, match.products, 1),
                         enhanced_fuzzy_match_products(match.query, match.products,
                                                       match.threshold))
    /\ UNCHANGED <<pc, turn, available_products, intent, reply, status, calls, shown,
                   locals>>

\* The agent matches the query against the catalog
FuzzyMatch ==
    /\ match.phase = "called"
    /\ match' = MatchReturn("fuzzy",
                         ScoreAll("fuzzy", match.query, match.products, 1),
                         fuzzy_match_products(match.query, match.products,
                                              match.threshold))
    /\ UNCHANGED <<pc, turn, available_products, intent, reply, status, calls, shown,
                   locals>>

-----------------------------------------------------------------------------
(* /remove_item_from_cart of the MCP server, on a cart that other requests  *)
(* for the same user reach as well                                          *)

NoCart == <<>>

Line(product_id, quantity) == [product_id |-> product_id, quantity |-> quantity]

\* The quantity the cart holds of a product
QuantityIn(c, product_id) ==
    IF \E k \in 1..Len(c) : c[k].product_id = product_id
    THEN c[CHOOSE k \in 1..Len(c) : c[k].product_id = product_id].quantity
    ELSE 0

\* AddItem of the Cart Service: the quantity is added to the product's line,
\* and a product without a line gets one
AddItemTo(c, product_id, quantity) ==
    IF \E k \in 1..Len(c) : c[k].product_id = product_id
    THEN [k \in 1..Len(c) |->
             IF c[k].product_id = product_id
             THEN Line(product_id, c[k].quantity + quantity) ELSE c[k]]
    ELSE Append(c, Line(product_id, quantity))

NoRemoval ==
    [phase |-> "none", user_id |-> "", product_id |-> "", items |-> <<>>, i |-> 0,
     status |-> "", message |-> "", before |-> <<>>, others |-> <<>>]

NoSearch ==
    [phase |-> "none", query |-> "", catalog |-> <<>>, all_products |-> <<>>,
     direct |-> <<>>,
     cleaned_query |-> "", fuzzy_results |-> <<>>, results |-> <<>>, count |-> 0,
     status |-> 0, detail |-> ""]

\* The carts a removal starts from
InitialCarts ==
    { <<>>,
      <<Line("OLJCESPC7Z", 1)>>,
      <<Line("OLJCESPC7Z", 2), Line("6E92ZMYYFZ", 1)>>,
      <<Line("6E92ZMYYFZ", 1), Line("OLJCESPC7Z", 2), Line("1YMWWN1N4O", 3)>> }

CartProductIds == <<"OLJCESPC7Z", "6E92ZMYYFZ", "1YMWWN1N4O">>

RemoveUsers == {"u1", " "}
RemoveProductIds == {"OLJCESPC7Z", "1YMWWN1N4O", ""}

\* What another request puts into the cart meanwhile
OtherProductIds == {"6E92ZMYYFZ", "9SIQT8TOJO"}
MaxOtherAdds == 1

\* remove_item_from_cart returns
RemoveReturn(result_status, message) ==
    [removal EXCEPT !.phase = "done", !.status = result_status, !.message = message]

\* except grpc.RpcError / except Exception of remove_item_from_cart
RemoveFailed(o) == RemoveReturn("error", FriendlyError(o.raw, "cart").server)

\* The lines re-added after the cart was emptied
ToReAdd(items, product_id) == SelectSeq(items, LAMBDA item : item.product_id # product_id)

\* remove_item_from_cart: input validation
RemoveRequest(u, p) ==
    /\ removal.phase = "none"
    /\ removal' =
           LET r == [removal EXCEPT !.user_id = u, !.product_id = p, !.before = cart]
           IN IF Strip(u) = ""
              THEN [r EXCEPT !.phase = "done", !.status = "error",
                             !.message = "User ID is required"]
              ELSE IF Strip(p) = ""
              THEN [r EXCEPT !.phase = "done", !.status = "error",
                             !.message = "Product ID is required"]
              ELSE [r EXCEPT !.phase = "get"]
    /\ UNCHANGED <<pc, endpoint, gemini_enabled, ml_available, user_message, extracted,
                   user_id, request, available_products, intent, reply, status, calls,
                   shown, locals, match, extraction, cart, search>>

\* remove_item_from_cart: stub.GetCart and the search for the item
RemoveGetCart(o) ==
    /\ removal.phase = "get"
    /\ calls' = Append(calls, Call("GetCart", removal.user_id, "", 0, o.kind = "ok"))
    /\ removal' =
           IF o.kind # "ok" THEN RemoveFailed(o)
           ELSE IF \A k \in 1..Len(cart) : cart[k].product_id # removal.product_id
           THEN RemoveReturn("error",
                             "Product " \o removal.product_id \o " not found in cart")
           ELSE [removal EXCEPT !.phase = "empty", !.items = cart]
    /\ UNCHANGED <<pc, endpoint, gemini_enabled, ml_available, user_message, extracted,
                   user_id, request, available_products, intent, reply, status,
                   shown, locals, match, extraction, cart, search>>

\* remove_item_from_cart: stub.EmptyCart
RemoveEmptyCart(o) ==
    /\ removal.phase = "empty"
    /\ calls' = Append(calls, Call("EmptyCart", removal.user_id, "", 0, o.kind = "ok"))
    /\ IF o.kind # "ok"
       THEN /\ removal' = RemoveFailed(o)
            /\ UNCHANGED cart
       ELSE /\ cart' = <<>>
            /\ removal' =
                   IF ToReAdd(removal.items, removal.product_id) = <<>>
                   THEN RemoveReturn("success",
                                     "Removed " \o removal.product_id \o " from cart")
                   ELSE [removal EXCEPT !.phase = "readd", !.i = 1]
    /\ UNCHANGED <<pc, endpoint, gemini_enabled, ml_available, user_message, extracted,
                   user_id, request, available_products, intent, reply, status,
                   shown, locals, match, extraction, search>>

\* remove_item_from_cart: one stub.AddItem of the re-adding loop
RemoveReAdd(o) ==
    /\ removal.phase = "readd"
    /\ LET items == ToReAdd(removal.items, removal.product_id)
           item == items[removal.i]
       IN /\ calls' = Append(calls, Call("AddItem", removal.user_id, item.product_id,
                                         item.quantity, o.kind = "ok"))
          /\ IF o.kind # "ok"
             THEN /\ removal' = RemoveFailed(o)
                  /\ UNCHANGED cart
             ELSE /\ cart' = AddItemTo(cart, item.product_id, item.quantity)
                  /\ removal' =
                         IF removal.i = Len(items)
                         THEN RemoveReturn("success",
                                  "Removed " \o removal.product_id \o " from cart")
                         ELSE [removal EXCEPT !.i = @ + 1]
    /\ UNCHANGED <<pc, endpoint, gemini_enabled, ml_available, user_message, extracted,
                   user_id, request, available_products, intent, reply, status,
                   shown, locals, match, extraction, search>>

\* Another request for the same user's cart has its AddItem served by the
\* Cart Service while the removal is between two of its calls
OtherAddItem(p, q) ==
    /\ removal.phase \in {"get", "empty", "readd"}
    /\ Len(removal.others) < MaxOtherAdds
    /\ cart' = AddItemTo(cart, p, q)
    /\ removal' = [removal EXCEPT !.others = Append(@, Line(p, q))]
    /\ UNCHANGED <<pc, endpoint, gemini_enabled, ml_available, user_message, extracted,
                   user_id, request, available_products, intent, reply, status, calls,
                   shown, locals, match, extraction, search>>

InitRemove ==
    /\ pc = "Idle"
    /\ endpoint = "none"
    /\ gemini_enabled = FALSE
    /\ ml_available = FALSE
    /\ user_message = ""
    /\ extracted = Extracted[""]
    /\ user_id = ""
    /\ request = NoRequest
    /\ available_products = <<>>
    /\ intent = "none"
    /\ reply = ""
    /\ status = 0
    /\ calls = <<>>
    /\ shown = <<>>
    /\ locals = InitLocals
    /\ match = NoCall
    /\ extraction = NoExtraction
    /\ cart \in InitialCarts
    /\ removal = NoRemoval
    /\ search = NoSearch

NextRemove ==
    \/ \E u \in RemoveUsers, p \in RemoveProductIds : RemoveRequest(u, p)
    \/ \E o \in CartOutcomes : RemoveGetCart(o)
    \/ \E o \in CartOutcomes : RemoveEmptyCart(o)
    \/ \E o \in CartOutcomes : RemoveReAdd(o)
    \/ \E p \in OtherProductIds : OtherAddItem(p, 1)

SpecRemove == InitRemove /\ [][NextRemove]_vars

-----------------------------------------------------------------------------

(* The requests the model serves                                            *)

ChatUsers == {"u1"}
Shapes == {"ok", "empty", "assistant_last"}

AddUsers == {"u1", "", " "}
Actions == {"add", "view", "clear", "remove"}
ProductIds == {NoMatch, "", " ", "OLJCESPC7Z"}
MaxQuantity == 2
Quantities == {<<>>} \cup {<<q>> : q \in -1..MaxQuantity}
Queries == {"mug"}

Init ==
    /\ pc = "Idle"
    /\ endpoint = "none"
    /\ gemini_enabled \in BOOLEAN
    /\ ml_available \in BOOLEAN
    /\ user_message = ""
    /\ extracted = Extracted[""]
    /\ user_id = ""
    /\ request = NoRequest
    /\ available_products = <<>>
    /\ intent = "none"
    /\ reply = ""
    /\ status = 0
    /\ calls = <<>>
    /\ shown = <<>>
    /\ locals = InitLocals
    /\ match = NoCall
    /\ extraction = NoExtraction
    /\ cart = NoCart
    /\ removal = NoRemoval
    /\ search = NoSearch

\* The steps of a chat turn under way
TurnStep ==
    \/ \E o \in HttpOutcomes : GeminiListProducts(o)
    \/ \E o \in AddOutcomes, items \in CartContents : GeminiGetCart(o, items)
    \/ \E o \in AddOutcomes : HandleAddAll(o)
    \/ \E o \in HttpOutcomes : HandleProductDetails(o)
    \/ \E o \in AddOutcomes : HandleAddById(o)
    \/ \E o \in AddOutcomes : HandleAddByName(o)
    \/ \E o \in HttpOutcomes, results \in SearchResults : HandleSearch(o, results)
    \/ \E o \in AddOutcomes : HandleAddBest(o)
    \/ \E o \in GeminiOutcomes : GeminiGenerate(o)
    \/ \E o \in HttpOutcomes, results \in SearchResults : GeminiSearch(o, results)
    \/ \E o \in HttpOutcomes, ml \in MLOutcomes(ml_available) :
           FallbackListProducts(o, ml)
    \/ \E o \in HttpOutcomes, results \in SearchResults : FallbackSearch(o, results)
    \/ \E o \in HttpOutcomes : FallbackProductDetails(o)
    \/ \E o \in AddOutcomes : FallbackAddToCart(o)
    \/ \E o \in AddOutcomes, items \in CartContents : FallbackGetCart(o, items)
    \/ \E o \in HttpOutcomes : FallbackCartItem(o)
    \/ \E o \in HttpOutcomes, at_equal \in BOOLEAN : FallbackRecommend(o, at_equal)

Next ==
    \/ \E m \in Messages, u \in ChatUsers, shape \in Shapes : ChatRequest(m, u, shape)
    \/ TurnStep
    \/ \E user \in AddUsers, action \in Actions, product_id \in ProductIds,
          quantity \in Quantities, o \in AddOutcomes, items \in CartContents :
           CartAction(user, action, product_id, quantity, o, items)
    \/ \E user \in AddUsers, action \in Actions, product_id \in ProductIds,
          quantity \in Quantities, o \in AddOutcomes, items \in CartContents :
           CartActionNoML(user, action, product_id, quantity, o, items)
    \/ \E user \in ChatUsers, query \in Queries, o \in HttpOutcomes,
          results \in SearchResults : SearchNoML(user, query, o, results)
    \/ \E user \in AddUsers, product_id \in ProductIds \ {NoMatch},
          quantity \in -1..MaxQuantity, o \in CartOutcomes :
           AddItemToCart(user, product_id, quantity, o)

Spec == Init /\ [][Next]_vars

\* The event loop resumes a turn whenever the call it awaits has ended.
FairSpec == Spec /\ WF_vars(TurnStep)

\* The products the matchers are given: two of them differ in nothing but
\* their id.
MatchPool ==
    << [id |-> "M1", name |-> "Mug", description |-> "A simple mug",
        categories |-> <<"kitchen">>],
       [id |-> "M2", name |-> "Mug", description |-> "A simple mug",
        categories |-> <<"kitchen">>],
       [id |-> "W1", name |-> "Watch", description |-> "Gold watch",
        categories |-> <<"accessories">>],
       [id |-> "J1", name |-> "Glass Jar", description |-> "Bamboo jar",
        categories |-> <<"kitchen", "home">>] >>

MaxMatched == 4

\* The catalogs: the products of the pool, each at most once, in any order
MatchCatalogs ==
    { c \in UNION {[1..n -> Range(MatchPool)] : n \in 0..MaxMatched} :
          \A i, j \in 1..Len(c) : i # j => c[i] # c[j] }

MatchQueries == {"", "Mugs", "watches", "kitchen jar", "jar"}

\* 0, the defaults 0.4 and 0.6, 0.8, 1 and a threshold above 1
Thresholds == {<<0, 1>>, <<2, 5>>, <<3, 5>>, <<4, 5>>, <<1, 1>>, <<11, 10>>}

InitMatch ==
    /\ pc = "Idle"
    /\ endpoint = "none"
    /\ gemini_enabled = FALSE
    /\ ml_available = FALSE
    /\ user_message = ""
    /\ extracted = Extracted[""]
    /\ user_id = ""
    /\ request = NoRequest
    /\ available_products = <<>>
    /\ intent = "none"
    /\ reply = ""
    /\ status = 0
    /\ calls = <<>>
    /\ shown = <<>>
    /\ locals = InitLocals
    /\ match \in { [NoCall EXCEPT !.phase = "called", !.query = q, !.threshold = t,
                                  !.products = c] :
                   q \in MatchQueries, t \in Thresholds, c \in MatchCatalogs }
    /\ extraction = NoExtraction
    /\ cart = NoCart
    /\ removal = NoRemoval
    /\ search = NoSearch

NextMatch == EnhancedMatch \/ FuzzyMatch

SpecMatch == InitMatch /\ [][NextMatch]_vars

-----------------------------------------------------------------------------
(* 'add all' on catalogs of up to seven products                            *)

\* The catalogs ListProducts answers an 'add all' turn with; the third
\* product of the pool has no id
AddAllPool ==
    << FullCatalog[1], FullCatalog[2],
       [Product("", "Loafers", "A neat addition to your summer wardrobe.",
                89, 990000000, <<"footwear">>) EXCEPT !.id = ""],
       FullCatalog[3], FullCatalog[4],
       Product("66VCHSJNUP", "Tank Top", "Perfectly cropped cotton tank.",
               18, 990000000, <<"clothing">>),
       Product("0PUK6V6EV0", "Candle Holder", "This small but intricate candle holder.",
               18, 990000000, <<"decor">>) >>

AddAllCatalogs == {SubSeq(AddAllPool, 1, n) : n \in {0, 2, 5, 7}}

AddAllMessages == {"add all to cart"}

\* _process_with_gemini after its list_all_products returned the catalog
InitAddAll ==
    /\ pc = "g_cart"
    /\ endpoint = "chat"
    /\ gemini_enabled = TRUE
    /\ ml_available \in BOOLEAN
    /\ user_message \in AddAllMessages
    /\ extracted = Extracted[user_message]
    /\ user_id \in ChatUsers
    /\ request = [NoRequest EXCEPT !.shape = "ok"]
    /\ available_products \in AddAllCatalogs
    /\ intent = "none"
    /\ reply = ""
    /\ status = 0
    /\ calls = <<Call("ListProducts", "", "", 0, TRUE)>>
    /\ shown = <<>>
    /\ locals = InitLocals
    /\ match = NoCall
    /\ extraction = NoExtraction
    /\ cart = NoCart
    /\ removal = NoRemoval
    /\ search = NoSearch

NextAddAll ==
    \/ \E o \in HttpOutcomes, items \in CartContents : GeminiGetCart(o, items)
    \/ \E o \in AddOutcomes : HandleAddAll(o)

SpecAddAll == InitAddAll /\ [][NextAddAll]_vars

-----------------------------------------------------------------------------

(* /search_products of the MCP server                                       *)

\* product_categories of clean_search_query, in the order of the dict
product_categories ==
    << [category |-> "cooking",
        terms |-> <<"cook", "cooking", "kitchen", "chef", "culinary">>],
       [category |-> "clothing",
        terms |-> <<"shirt", "pants", "dress", "jacket", "shoes", "clothing">>],
       [category |-> "accessories",
        terms |-> <<"watch", "jewelry", "bag", "wallet", "accessories">>],
       [category |-> "electronics",
        terms |-> <<"phone", "laptop", "computer", "electronics">>],
       [category |-> "home", terms |-> <<"home", "house", "decor", "furniture">>],
       [category |-> "gifts", terms |-> <<"gift", "present">>] >>

\* stop_words of clean_search_query
stop_words ==
    {"the", "for", "and", "with", "someone", "who", "loves", "that", "this", "has",
     "are", "was", "will", "can", "could", "would", "should"}

kitchen_terms ==
    <<"kitchen", "cook", "cooking", "chef", "culinary", "utensils", "cookware">>

\* re.findall(r'\b\w{3,}\b', s): the maximal runs of word characters that are
\* three characters long or longer
RECURSIVE LongWordsFrom(_, _, _)
LongWordsFrom(s, i, cur) ==
    IF i > Len(s) THEN (IF Len(cur) >= 3 THEN <<cur>> ELSE <<>>)
    ELSE IF IsWord(Ch(s, i)) THEN LongWordsFrom(s, i + 1, cur \o Ch(s, i))
    ELSE (IF Len(cur) >= 3 THEN <<cur>> ELSE <<>>) \o LongWordsFrom(s, i + 1, "")

\* [term for term in terms if term in query]
TermsIn(terms, query) == SelectSeq(terms, LAMBDA term : Contains(term, query))

\* key_terms: the terms found in the query, category after category
RECURSIVE KeyTerms(_, _)
KeyTerms(query, k) ==
    IF k > Len(product_categories) THEN <<>>
    ELSE TermsIn(product_categories[k].terms, query) \o KeyTerms(query, k + 1)

\* list(set(terms))[:n]: a set is iterated in an order the source does not
\* fix, so every choice of n distinct terms in every order can be the result
FirstOfSet(terms, n) ==
    LET m == Min(n, Cardinality(terms))
    IN { f \in [1..m -> terms] : \A i, j \in 1..m : i # j => f[i] # f[j] }

\* clean_search_query: every string the function can return for the query
clean_search_query(raw) ==
    LET query == Strip(Lower(raw))
        found_categories ==
            SelectSeq(product_categories,
                      LAMBDA c : TermsIn(c.terms, query) # <<>>)
        found == {found_categories[k].category : k \in 1..Len(found_categories)}
        key_terms == KeyTerms(query, 1)
        meaningful_words ==
            SelectSeq(LongWordsFrom(query, 1, ""), LAMBDA word : word \notin stop_words)
        result_terms ==
            IF found # {}
            THEN IF "cooking" \in found \/ "gifts" \in found
                 THEN IF TermsIn(kitchen_terms, query) # <<>>
                      THEN {TermsIn(kitchen_terms, query)}
                      ELSE {<<"kitchen">>}
                 ELSE FirstOfSet(Range(key_terms), 3)
            ELSE {Take(meaningful_words, 3)}
        Cleaned(terms) ==
            LET cleaned == IF terms # <<>> THEN Join(terms, " ") ELSE query
            IN IF Strip(cleaned) = ""
               THEN (IF meaningful_words # <<>> THEN meaningful_words[1] ELSE query)
               ELSE cleaned
    IN {Cleaned(terms) : terms \in result_terms}

\* len(results_from_grpc) < 3 sends the handler to the fuzzy search
FewHits == 3

\* results_from_grpc[:15]
MaxResults == 15

\* The products of the catalog service, every id once; more of them are mugs
\* than a result may hold
SearchPoolSize == 17
SearchPool ==
    [k \in 1..SearchPoolSize |->
        [id |-> "S" \o Fmt02d(k),
         name |-> IF k % 6 = 0 THEN "Watch" ELSE "Mug",
         description |-> IF k % 2 = 0 THEN "Gold" ELSE "Kitchen",
         categories |-> <<>>]]

SearchCatalogs == {SubSeq(SearchPool, 1, n) : n \in {0, 4, SearchPoolSize}}

SearchQueries == {"Mugs", "a gift for the cook", "bag watch"}

\* What stub.SearchProducts can answer: a run of products of the catalog
DirectHits(catalog) ==
    {SubSeq(catalog, a, b) : a \in 1..Max(1, Len(catalog)), b \in 0..Len(catalog)}

\* The fuzzy results the direct hits do not already hold, appended in order
Combined(direct, fuzzy_results) ==
    LET existing_ids == {direct[k].id : k \in 1..Len(direct)}
    IN direct \o SelectSeq(fuzzy_results, LAMBDA p : p.id \notin existing_ids)

SearchRaise(o) ==
    [search EXCEPT !.phase = "returned", !.status = 500,
                   !.detail = FriendlyError(o.raw, "search").server]

SearchReturn(results) ==
    [search EXCEPT !.phase = "returned", !.status = 200, !.results = results,
                   !.count = Len(results)]

\* search_products: stub.SearchProducts, and the answer when it brought
\* three results or more
SearchDirect(o, hits) ==
    /\ search.phase = "called"
    /\ calls' = Append(calls, Call("SearchProducts", "", "", 0, o.kind = "ok"))
    /\ search' =
           IF o.kind # "ok" THEN SearchRaise(o)
           ELSE IF Len(hits) < FewHits
           THEN [search EXCEPT !.phase = "list", !.direct = hits]
           ELSE [SearchReturn(hits) EXCEPT !.direct = hits]
    /\ UNCHANGED <<pc, endpoint, gemini_enabled, ml_available, user_message, extracted,
                   user_id, request, available_products, intent, reply, status,
                   shown, locals, match, extraction, cart, removal>>

\* search_products: stub.ListProducts, the fuzzy search over the cleaned
\* query, the combination and the cut
SearchList(o, cleaned_query) ==
    /\ search.phase = "list"
    /\ calls' = Append(calls, Call("ListProducts", "", "", 0, o.kind = "ok"))
    /\ search' =
           IF o.kind # "ok" THEN SearchRaise(o)
           ELSE LET all_products == search.catalog
                    fuzzy_results ==
                        enhanced_fuzzy_match_products(cleaned_query, all_products,
                                                      <<2, 5>>)
                    results == Take(Combined(search.direct, fuzzy_results), MaxResults)
                IN [SearchReturn(results) EXCEPT !.all_products = all_products,
                                                 !.cleaned_query = cleaned_query,
                                                 !.fuzzy_results = fuzzy_results]
    /\ UNCHANGED <<pc, endpoint, gemini_enabled, ml_available, user_message, extracted,
                   user_id, request, available_products, intent, reply, status,
                   shown, locals, match, extraction, cart, removal>>

InitSearch ==
    /\ pc = "Idle"
    /\ endpoint = "none"
    /\ gemini_enabled = FALSE
    /\ ml_available = FALSE
    /\ user_message = ""
    /\ extracted = Extracted[""]
    /\ user_id = ""
    /\ request = NoRequest
    /\ available_products = <<>>
    /\ intent = "none"
    /\ reply = ""
    /\ status = 0
    /\ calls = <<>>
    /\ shown = <<>>
    /\ locals = InitLocals
    /\ match = NoCall
    /\ extraction = NoExtraction
    /\ cart = NoCart
    /\ removal = NoRemoval
    /\ search \in { [NoSearch EXCEPT !.phase = "called", !.query = q, !.catalog = c] :
                    q \in SearchQueries, c \in SearchCatalogs }

NextSearch ==
    \/ \E o \in CartOutcomes : \E hits \in DirectHits(search.catalog) :
           SearchDirect(o, hits)
    \/ \E o \in CartOutcomes : \E cleaned_query \in clean_search_query(search.query) :
           SearchList(o, cleaned_query)

SpecSearch == InitSearch /\ [][NextSearch]_vars

-----------------------------------------------------------------------------

(* The extractors, the classifier and the variant builders as functions of  *)
(* a text                                                                   *)

\* The messages that consist of one trigger phrase of the intent table
TriggerPhrases == UNION {Range(intent_patterns(i)) : i \in Range(IntentOrder)}

\* What follows a lead-in phrase: words that hold no lead-in phrase themselves
Remainders == {"running shoes", "a red mug"}

LeadInTexts ==
    {SearchLeadIns[k] \o " " \o x : k \in 1..Len(SearchLeadIns), x \in Remainders}

QuantityTexts ==
    { "buy 2 of OLJCESPC7Z", "add 3 mugs and 2 of those", "i want 4 items",
      "quantity: 5", "Quantity 0", "buy 0 mugs", "get 12 pieces",
      "3 of them then buy 7", "Purchase  10", "quantity 2 and 6 items" }

ProductIdTexts ==
    { "add mug to cart", "add OLJCESPC7Z to cart", "add sunglasses to my cart",
      "product: 0PUK6V6EV0", "id abcdefgh1", "^OLJCESPC7Z^", "^mug^",
      "the product sunglasses OLJCESPC7Z", "watch the video", "ID:12345678",
      "please purchase OLJCESPC7Z" }

NormalizeTexts ==
    { "a mug for the office", "the a an and", "Find THE  mug", "mug in box",
      "  blue   dress under fifty  ", "shoes and a bag for the gym by monday",
      "hello there", "" }

VariantTexts == {"mugs", "bus", "glass", "dresses", "vase", "mug", " Shoes ", "es"}

Texts ==
    TriggerPhrases \cup LeadInTexts \cup QuantityTexts \cup ProductIdTexts
    \cup NormalizeTexts \cup VariantTexts

InitExtract ==
    /\ pc = "Idle"
    /\ endpoint = "none"
    /\ gemini_enabled = FALSE
    /\ ml_available = FALSE
    /\ user_message = ""
    /\ extracted = Extracted[""]
    /\ user_id = ""
    /\ request = NoRequest
    /\ available_products = <<>>
    /\ intent = "none"
    /\ reply = ""
    /\ status = 0
    /\ calls = <<>>
    /\ shown = <<>>
    /\ locals = InitLocals
    /\ match = NoCall
    /\ extraction \in {[NoExtraction EXCEPT !.phase = "called", !.text = t] : t \in Texts}
    /\ cart = NoCart
    /\ removal = NoRemoval
    /\ search = NoSearch

\* The function called with the text returns value
Extract(function, value) ==
    /\ extraction.phase = "called"
    /\ extraction' = [extraction EXCEPT !.phase = "returned", !.function = function,
                                        !.value = value]
    /\ UNCHANGED <<pc, endpoint, gemini_enabled, ml_available, user_message, extracted,
                   user_id, request, available_products, intent, reply, status, calls,
                   shown, locals, match, cart, removal, search>>

PreprocessText == Extract("preprocess_text", preprocess_text(extraction.text))

ExtractQuantity == Extract("_extract_quantity", _extract_quantity(extraction.text))

ExtractProductId == Extract("_extract_product_id", _extract_product_id(extraction.text))

ExtractProductIdNoML ==
    Extract("_extract_product_id_no_ML", _extract_product_id_no_ML(extraction.text))

ExtractSearchTerms ==
    Extract("_extract_search_terms", _extract_search_terms(extraction.text, "search"))

EnhancedQueryVariants ==
    Extract("enhanced_variants", EnhancedVariants(Strip(Lower(extraction.text))))

FuzzyQueryVariants ==
    Extract("fuzzy_variants", FuzzyVariants(Strip(Lower(extraction.text))))

\* classify_intent with the embedding model loaded or not, and with each
\* outcome of the embedding comparison
ClassifyIntent(model, ml) ==
    /\ extraction.phase = "called"
    /\ extraction' =
           [extraction EXCEPT
               !.phase = "returned", !.function = "classify_intent",
               !.model = model, !.ml = ml,
               !.value = classify_intent(
                             KeywordIntent(Lower(extraction.text), IntentOrder, 1), ml)]
    /\ UNCHANGED <<pc, endpoint, gemini_enabled, ml_available, user_message, extracted,
                   user_id, request, available_products, intent, reply, status, calls,
                   shown, locals, match, cart, removal, search>>

NextExtract ==
    \/ PreprocessText
    \/ ExtractQuantity
    \/ ExtractProductId
    \/ ExtractProductIdNoML
    \/ ExtractSearchTerms
    \/ EnhancedQueryVariants
    \/ FuzzyQueryVariants
    \/ \E model \in BOOLEAN : \E ml \in MLOutcomes(model) : ClassifyIntent(model, ml)

SpecExtract == InitExtract /\ [][NextExtract]_vars

-----------------------------------------------------------------------------
(* Properties                                                               *)

ChatTurn == endpoint = "chat" /\ request.shape = "ok"

CallOps == [i \in 1..Len(calls) |-> calls[i].op]

Called(op) == \E i \in 1..Len(calls) : calls[i].op = op

\* C1: classify_intent returns the first intent, in the order search,
\* cart_view, cart_add, recommendations, help, that has a trigger phrase
\* occurring in the lowercased message; a later intent is never returned when
\* an earlier intent has a matching phrase.
C1_FirstMatchWins ==
    intent # "none" =>
        LET text_lower == Lower(user_message)
            order == <<"search", "cart_view", "cart_add", "recommendations", "help">>
            Matches(k) == \E j \in 1..Len(intent_patterns(order[k])) :
                              Contains(intent_patterns(order[k])[j], text_lower)
        IN \A k \in 1..Len(order) :
               (Matches(k) /\ \A j \in 1..(k - 1) : ~Matches(j)) => intent = order[k]

\* A classified message in which phrases of two intents occur.
C1_Witness ==
    /\ intent # "none"
    /\ Cardinality({i \in Range(IntentOrder) :
                       AnyIn(intent_patterns(i), Lower(user_message))}) >= 2

\* C2: in the rule-based flow, 'add <ID> to cart' with an id of the catalog
\* issues AddItem(user, <ID>, quantity) and is answered 'Added ...' (when no
\* collaborator call of the turn fails).
C2_AddByInstruction ==
    \A k \in 1..Len(Catalog) :
        ( /\ ChatTurn /\ ~gemini_enabled /\ pc = "Returned"
          /\ user_message = "add " \o Catalog[k].id \o " to cart"
          /\ \A i \in 1..Len(calls) : calls[i].ok )
        => /\ \E i \in 1..Len(calls) :
                  /\ calls[i].op = "AddItem"
                  /\ calls[i].user_id = user_id
                  /\ calls[i].product_id = Catalog[k].id
           /\ StartsWith(reply, "Added ")

\* C3: every chat turn eventually returns a reply string, whatever the
\* collaborators answer; no exception leaves process_natural_language_request.
C3_TurnReturns == ChatTurn ~> (pc = "Returned" /\ reply # "")

\* A turn that returned although a collaborator call failed.
C3_Witness ==
    /\ ChatTurn /\ pc = "Returned" /\ reply # ""
    /\ \E i \in 1..Len(calls) : ~calls[i].ok

GeminiFailureStrings == {GeminiHttpError, GeminiNoCandidates, GeminiException}

\* C4: in a turn that consulted Generate, the reply is the generative answer
\* if and only if the answer is non-empty, has at least 50 characters once
\* stripped and does not contain "trouble"; the client's own failure strings
\* are never the reply.
C4_AnswerAccepted ==
    (ChatTurn /\ pc = "Returned" /\ Called("Generate")) =>
        LET answer == locals.gemini_response
        IN /\ (reply = answer) <=>
                  ( /\ answer # ""
                    /\ Len(Strip(answer)) >= 50
                    /\ ~Contains("trouble", answer) )
           /\ reply \notin GeminiFailureStrings

\* A turn in which Generate failed and a fallback was returned instead.
C4_Witness ==
    /\ ChatTurn /\ pc = "Returned" /\ Called("Generate")
    /\ locals.gemini_response \in GeminiFailureStrings
    /\ reply # locals.gemini_response

CartMutations == {"PostAddItem", "AddItem"}

InvalidAdd ==
    \/ request.product_id = NoMatch
    \/ Blank(user_id)
    \/ Blank(request.product_id)
    \/ (request.quantity # <<>> /\ request.quantity[1] <= 0)

\* C6: an add-to-cart request with a blank user id, a blank product id or a
\* quantity <= 0 is answered with an error, and no collaborator is called.
C6_InvalidAddRejected ==
    ( /\ pc = "Done"
      /\ endpoint \in {"cart_action", "cart_action_no_ML", "add_item_to_cart"}
      /\ request.action = "add"
      /\ InvalidAdd )
    => /\ (status \in {400, 500} \/ locals.result_status = "error")
       /\ calls = <<>>

\* C7: no reply and no error detail contains the raw text of an exception.
C7_NoRawErrorText ==
    pc \in {"Returned", "Done", "Raised"} =>
        \A raw \in RawErrors : ~Contains(raw, reply)

\* C8: every price shown in a reply is '$' units '.' and the two digits of
\* floor(nanos / 10,000,000).
C8_PricesInCents ==
    \A i \in 1..Len(shown) :
        LET units == shown[i][1]
            nanos == shown[i][2]
            cents == nanos \div 10000000
        IN shown[i][3] = "$" \o Str(units) \o "."
                         \o (IF cents < 10 THEN "0" ELSE "") \o Str(cents)

\* The place of a returned product in the catalog the matcher was given
Arrival(product) == CHOOSE i \in 1..Len(match.products) : match.products[i] = product

\* The final score of a returned product
ScoreOf(product) == match.scores[Arrival(product)]

\* The result is in non-increasing order of final score, ties in arrival order
SortedStably ==
    \A k, l \in 1..Len(match.result) :
        k < l => /\ Leq(ScoreOf(match.result[l]), ScoreOf(match.result[k]))
                 /\ Same(ScoreOf(match.result[l]), ScoreOf(match.result[k]))
                        => Arrival(match.result[k]) < Arrival(match.result[l])

\* C9: every final score lies in [0, 1]; with a threshold above 1 the matcher
\* returns nothing, and with the threshold 0 it returns every product of the
\* catalog, by descending score, ties in arrival order.
C9_ThresholdExtremes ==
    match.phase = "returned" =>
        /\ \A i \in 1..Len(match.scores) :
               Leq(<<0, 1>>, match.scores[i]) /\ Leq(match.scores[i], <<1, 1>>)
        /\ ~Leq(match.threshold, <<1, 1>>) => match.result = <<>>
        /\ Same(match.threshold, <<0, 1>>) =>
               /\ Range(match.result) = Range(match.products)
               /\ Len(match.result) = Len(match.products)
               /\ SortedStably

\* A matcher given a threshold above 1 and a product whose final score is 1.
C9_Witness ==
    /\ match.phase = "returned"
    /\ ~Leq(match.threshold, <<1, 1>>)
    /\ \E i \in 1..Len(match.scores) : Same(match.scores[i], <<1, 1>>)

\* C10: the matcher returns exactly the products whose final score is at
\* least the threshold, in non-increasing order of final score, and products
\* of equal score in the order in which the catalog gave them.
C10_FilteredSorted ==
    match.phase = "returned" =>
        /\ Range(match.result) =
               { match.products[i] : i \in { j \in 1..Len(match.products) :
                                                 Leq(match.threshold, match.scores[j]) } }
        /\ \A k, l \in 1..Len(match.result) : k # l => match.result[k] # match.result[l]
        /\ SortedStably

\* A result that drops one product and keeps two of equal score behind a
\* product of higher score.
C10_Witness ==
    /\ match.phase = "returned"
    /\ Len(match.result) < Len(match.products)
    /\ \E k, l \in 1..Len(match.result) :
           /\ k < l
           /\ Same(ScoreOf(match.result[k]), ScoreOf(match.result[l]))
           /\ Arrival(match.result[1]) > Arrival(match.result[k])
           /\ ~Same(ScoreOf(match.result[1]), ScoreOf(match.result[k]))

\* The variants of the query the matcher that was called builds
VariantsOfCall ==
    IF match.matcher = "enhanced" THEN EnhancedVariants(Strip(Lower(match.query)))
    ELSE FuzzyVariants(Strip(Lower(match.query)))

\* A variant of the query occurs in the lowercased name of the k-th product
VariantInName(k) ==
    \E v \in 1..Len(VariantsOfCall) :
        Contains(VariantsOfCall[v], Lower(match.products[k].name))

\* C11: a product in whose lowercased name a variant of the query occurs has
\* a final score of at least 0.8 and is returned whenever the threshold is at
\* most 0.8.
C11_NameBoost ==
    match.phase = "returned" =>
        \A k \in 1..Len(match.products) :
            VariantInName(k) =>
                /\ Leq(<<4, 5>>, match.scores[k])
                /\ Leq(match.threshold, <<4, 5>>) =>
                       \E r \in 1..Len(match.result) : match.result[r] = match.products[k]

\* A product returned at the threshold 0.8 with a final score of exactly 0.8:
\* a variant occurs in its name, and no variant equals its name.
C11_Witness ==
    /\ match.phase = "returned"
    /\ Same(match.threshold, <<4, 5>>)
    /\ \E k \in 1..Len(match.products) :
           /\ VariantInName(k)
           /\ Same(match.scores[k], <<4, 5>>)
           /\ \E r \in 1..Len(match.result) : match.result[r] = match.products[k]

Returned(function) == extraction.phase = "returned" /\ extraction.function = function

\* The variants of a phrase that end with one "s", or with "es", taken off,
\* or else with "s" and, unless the phrase ends in "e", "es" put on
StatedVariants(phrase) ==
    IF EndsWith(phrase, "s") /\ Len(phrase) > 3
    THEN {phrase, SubSeq(phrase, 1, Len(phrase) - 1)}
         \cup (IF EndsWith(phrase, "es") /\ Len(phrase) > 4
               THEN {SubSeq(phrase, 1, Len(phrase) - 2)} ELSE {})
    ELSE {phrase, phrase \o "s"}
         \cup (IF ~EndsWith(phrase, "e") THEN {phrase \o "es"} ELSE {})

\* C12: the variants either matcher builds for a phrase are exactly the
\* lowercased phrase; for a phrase ending in "s" and longer than 3, the phrase
\* without its trailing "s" and, when it ends in "es" and is longer than 4,
\* without its trailing "es"; otherwise the phrase + "s" and, only when the
\* phrase does not end in "e", the phrase + "es".
C12_VariantSet ==
    (Returned("enhanced_variants") \/ Returned("fuzzy_variants")) =>
        Range(extraction.value) = StatedVariants(Strip(Lower(extraction.text)))

\* C13: preprocess_text is idempotent: applied to its own result for a
\* non-empty text, it returns that result.
C13_Idempotent ==
    (Returned("preprocess_text") /\ extraction.text # "") =>
        preprocess_text(extraction.value) = extraction.value

\* A text of more than three words that lost a stop-word, with words left.
C13_Witness ==
    /\ Returned("preprocess_text")
    /\ extraction.value # ""
    /\ \E w \in Range(Split(Lower(extraction.text))) :
           w \in StopWords /\ w \notin Range(Split(extraction.value))

\* C14: the result of preprocess_text either has more than 3 words and holds
\* no stop-word, or is the lowercased text with its whitespace collapsed and
\* nothing removed.
C14_ShortKeepsStopWords ==
    Returned("preprocess_text") =>
        LET words == Split(extraction.value)
        IN \/ Len(words) > 3 /\ \A k \in 1..Len(words) : words[k] \notin StopWords
           \/ extraction.value = Join(Split(Lower(extraction.text)), " ")

\* Where each quantity pattern matches in m
VerbQtyHits(m) == {i \in 1..Len(m) : VerbQtyStart(m, i) # 0}

UnitQtyHits(m) == {i \in 1..Len(m) : UnitQtyAt(m, i)}

LabelQtyHits(m) == {i \in 1..Len(m) : LabelQtyStart(m, i) # 0}

\* C15: _extract_quantity returns the number of the leftmost match of the
\* first of the patterns '(buy|add|get|purchase) <N>', '<N> (of|items|pieces)',
\* 'quantity: <N>' that matches, raised to 1 when it is less, and 1 when none
\* matches; the result is an integer of at least 1.
C15_FirstPatternWins ==
    Returned("_extract_quantity") =>
        LET m == extraction.text
            Number(c) == Max(1, ToInt(DigitsFrom(m, c)))
        IN /\ extraction.value \in Nat
           /\ extraction.value >= 1
           /\ VerbQtyHits(m) # {} =>
                  extraction.value = Number(VerbQtyStart(m, Least(VerbQtyHits(m))))
           /\ (VerbQtyHits(m) = {} /\ UnitQtyHits(m) # {}) =>
                  extraction.value = Number(Least(UnitQtyHits(m)))
           /\ (VerbQtyHits(m) = {} /\ UnitQtyHits(m) = {} /\ LabelQtyHits(m) # {}) =>
                  extraction.value = Number(LabelQtyStart(m, Least(LabelQtyHits(m))))
           /\ (VerbQtyHits(m) = {} /\ UnitQtyHits(m) = {} /\ LabelQtyHits(m) = {}) =>
                  extraction.value = 1

\* A message in which the first and the second pattern match different
\* numbers, the second pattern to the left of the first.
C15_Witness ==
    /\ Returned("_extract_quantity")
    /\ VerbQtyHits(extraction.text) # {}
    /\ UnitQtyHits(extraction.text) # {}
    /\ Least(UnitQtyHits(extraction.text)) < Least(VerbQtyHits(extraction.text))
    /\ ToInt(DigitsFrom(extraction.text, Least(UnitQtyHits(extraction.text))))
           # extraction.value

\* C16: a value other than None returned by _extract_product_id, in either
\* agent, has at least 8 characters, is not a denylisted category word and
\* holds an uppercase letter or a digit; 'add mug to cart' yields None.
C16_OnlyPlausibleIds ==
    (Returned("_extract_product_id") \/ Returned("_extract_product_id_no_ML")) =>
        /\ extraction.value # NoMatch =>
               /\ Len(extraction.value) >= 8
               /\ Lower(extraction.value) \notin IdDenylist
               /\ \E k \in 1..Len(extraction.value) :
                      Ch(extraction.value, k) \in Uppers \cup Digits
        /\ extraction.text = "add mug to cart" => extraction.value = NoMatch

\* C17: for a lead-in phrase p of the list and a remainder x that holds no
\* listed phrase, _extract_search_terms(p + ' ' + x) holds no word of p and
\* only words of x.
C17_LeadInStripped ==
    Returned("_extract_search_terms") =>
        \A k \in 1..Len(SearchLeadIns) : \A x \in Remainders :
            extraction.text = SearchLeadIns[k] \o " " \o x =>
                /\ Range(Split(extraction.value)) \cap Range(Split(SearchLeadIns[k])) = {}
                /\ Range(Split(extraction.value)) \subseteq Range(Split(x))

\* No trigger phrase of any intent occurs in the lowercased text
NoTrigger(text) ==
    \A i \in Range(IntentOrder) : ~AnyIn(intent_patterns(i), Lower(text))

\* C18: when no trigger phrase of any intent occurs in the message,
\* classify_intent returns search, unless the embedding model is loaded, the
\* comparison succeeds and its best similarity exceeds 0.3: then it returns
\* the best-scoring intent. A failure of the comparison yields search.
C18_DefaultsToSearch ==
    (Returned("classify_intent") /\ NoTrigger(extraction.text)) =>
        extraction.value =
            IF extraction.model /\ extraction.ml \in Range(IntentOrder)
            THEN extraction.ml ELSE "search"

\* The embedding comparison raised for a message without trigger phrase, and
\* the message was classified search.
C18_Witness ==
    /\ Returned("classify_intent")
    /\ extraction.text # ""
    /\ NoTrigger(extraction.text)
    /\ extraction.model
    /\ extraction.ml = "fail"
    /\ extraction.value = "search"

\* C20: a message that is exactly a trigger phrase listed for an intent is
\* classified as that intent.
C20_PhraseEffective ==
    Returned("classify_intent") =>
        \A i \in Range(IntentOrder) :
            extraction.text \in Range(intent_patterns(i)) => extraction.value = i

\* C19: a chat request with an empty message list, or whose last message is
\* not from the user, is answered with the status 400 and the detail 'No
\* messages provided' / 'Last message must be from user', and no collaborator
\* is called for it.
C19_MalformedChatRejected ==
    (endpoint = "chat" /\ request.shape \in {"empty", "assistant_last"} /\ pc = "Done") =>
        /\ status = 400
        /\ reply = (IF request.shape = "empty" THEN "No messages provided"
                    ELSE "Last message must be from user")
        /\ calls = <<>>

\* The calls of the turn to op for product_id
CallsFor(op, product_id) ==
    {k \in 1..Len(calls) : calls[k].op = op /\ calls[k].product_id = product_id}

NotFoundReply(product_id) ==
    "Product ID '" \o product_id \o "' not found. Please search for products to get valid IDs."

\* C21: in a chat turn that took the explicit-id branch of the cart-add flow,
\* every AddItem (and every POST that leads to it) is for the extracted id and
\* follows a successful GetProduct for that id; when GetProduct for the id
\* failed, the turn issues no AddItem and is answered 'Product ID ... not
\* found'.
C21_VerifiedBeforeAdd ==
    (ChatTurn /\ locals.product_id # "") =>
        /\ \A k \in 1..Len(calls) :
              calls[k].op \in {"AddItem", "PostAddItem"} =>
                  /\ calls[k].product_id = locals.product_id
                  /\ \E j \in CallsFor("GetProduct", locals.product_id) :
                         j < k /\ calls[j].ok
        /\ (\E j \in CallsFor("GetProduct", locals.product_id) : ~calls[j].ok) =>
              /\ \A k \in 1..Len(calls) : calls[k].op \notin {"AddItem", "PostAddItem"}
              /\ pc = "Returned"
              /\ reply = NotFoundReply(locals.product_id)

\* A returned turn of the generative flow whose GetProduct for the extracted
\* id failed although the id is in the catalog.
C21_Witness ==
    /\ ChatTurn
    /\ pc = "Returned"
    /\ gemini_enabled
    /\ locals.product_id \in CatalogIds
    /\ \E j \in CallsFor("GetProduct", locals.product_id) : ~calls[j].ok
    /\ reply = NotFoundReply(locals.product_id)

\* The only word of the message that holds a digit is the product id
NoSeparateNumber(message, product_id) ==
    \A w \in Range(Split(message)) :
        (\E k \in 1..Len(w) : Ch(w, k) \in Digits) => w = product_id

\* C22: in a chat turn whose message names a product id and holds no other
\* number, every AddItem for that id carries the quantity 1.
C22_IdDigitsNotQuantity ==
    (ChatTurn /\ extracted.product_id # NoMatch
        /\ NoSeparateNumber(user_message, extracted.product_id)) =>
        \A k \in CallsFor("AddItem", extracted.product_id) : calls[k].quantity = 1

\* A word that by itself meets the acceptance criteria of a product id
AcceptableId(w) ==
    /\ Len(w) \in MinIdLen..MaxIdLen
    /\ IdRun(w, 1) = Len(w)
    /\ LooksLikeProductId(w)

\* C23: when a word of the message by itself meets the acceptance criteria of
\* a product id, _extract_product_id returns an accepted id and not None,
\* whatever words precede it.
C23_AcceptableIdFound ==
    (Returned("_extract_product_id")
        /\ \E w \in Range(Split(extraction.text)) : AcceptableId(w)) =>
        /\ extraction.value # NoMatch
        /\ LooksLikeProductId(extraction.value)

\* C24: with the generative service enabled, a chat turn whose message the
\* intent classifier classifies as search issues no AddItem.
C24_SearchNeverAdds ==
    (ChatTurn /\ gemini_enabled /\ extracted.keyword_intent = "search") =>
        \A k \in 1..Len(calls) : calls[k].op # "AddItem"

\* C25: a returned chat turn whose generative answer was rejected is answered
\* as the rule-based flow answers the message's intent: a help message with
\* the help text, a cart_view message with the cart view, a recommendations
\* message with the recommendation list.
C25_RejectedAnswerHonoursIntent ==
    (ChatTurn /\ pc = "Returned" /\ locals.generated
        /\ GeminiRejected(locals.gemini_response)) =>
        /\ extracted.keyword_intent = "help" =>
              reply \in {HelpReply(mode) : mode \in {"with Gemini AI", "with semantic search",
                                                      "with basic matching"}}
        /\ extracted.keyword_intent = "cart_view" =>
              \/ At(reply, 1, "Your shopping cart (")
              \/ At(reply, 1, "Your cart is empty.")
              \/ reply = "Couldn't access your cart right now. Please try again."
        /\ extracted.keyword_intent = "recommendations" =>
              \/ At(reply, 1, "Here are my top recommendations")
              \/ reply = "Can't get recommendations right now. Please try again later."

\* The quantity other requests added of a product while the removal ran
AddedByOthers(product_id) ==
    QuantityIn(removal.others, product_id)

\* C26: after a successful removal of P the cart holds, of every product
\* other than P, the quantity it held before plus what other requests added
\* meanwhile, P has no line, and no product has two lines.
C26_RemoveKeepsOtherLines ==
    (removal.phase = "done" /\ removal.status = "success") =>
        /\ \A x \in (Range(CartProductIds) \cup OtherProductIds) \ {removal.product_id} :
              QuantityIn(cart, x) = QuantityIn(removal.before, x) + AddedByOthers(x)
        /\ QuantityIn(cart, removal.product_id) = 0
        /\ \A j, k \in 1..Len(cart) : cart[j].product_id = cart[k].product_id => j = k

\* C27: a removal that returns the status error, with no other request in
\* between, leaves the cart as it was; when the product was not in the cart
\* no EmptyCart and no AddItem was issued.
C27_ErrorLeavesCart ==
    (removal.phase = "done" /\ removal.status = "error" /\ removal.others = <<>>) =>
        /\ cart = removal.before
        /\ QuantityIn(removal.before, removal.product_id) = 0 =>
              \A k \in 1..Len(calls) : calls[k].op \notin {"EmptyCart", "AddItem"}

\* The first five products of the fetched catalog that have an id
AddAllEligible ==
    SelectSeq(SubSeq(available_products, 1, Min(5, Len(available_products))),
              LAMBDA p : p.id # "")

\* add_to_cart's requests of the turn, and the products whose AddItem succeeded
AddAttempts == SelectSeq(calls, LAMBDA c : c.op = "PostAddItem")

AddSucceeded(p) ==
    \E k \in 1..Len(calls) :
        calls[k].op = "AddItem" /\ calls[k].product_id = p.id /\ calls[k].ok

C29_WithinBudget ==
    (ChatTurn /\ intent = "recommendations" /\ pc = "Returned"
        /\ extracted.budget # <<>>) =>
        /\ Len(shown) <= 6
        /\ \A k \in 1..Len(shown) :
              LET cents == shown[k][1] * 100 + shown[k][2] \div 10000000
                  limit == extracted.budget[1] * 100 + extracted.budget[2]
              IN \/ cents < limit
                 \/ cents = limit /\ shown[k][2] % 10000000 = 0


\* C30: whenever /search_products of the MCP server answers with success,
\* no two entries of the result share an id, the result has at most 15
\* entries, the direct hits of the catalog search come first and in their
\* order, and count is the length of the result.
C30_SearchResultBounded ==
    (search.phase = "returned" /\ search.status = 200) =>
        /\ \A i, j \in 1..Len(search.results) :
               i # j => search.results[i].id # search.results[j].id
        /\ Len(search.results) <= MaxResults
        /\ Len(search.direct) <= Len(search.results)
        /\ SubSeq(search.results, 1, Len(search.direct)) = search.direct
        /\ search.count = Len(search.results)

====
